---- MODULE Spec2Model ----
(***************************************************************************)
(* The hedge execution engine of src/market_maker.py (SmartMarketMaker):   *)
(* the scheduler loop monitor_and_trade, execute_trading_cycle with        *)
(* check_market_conditions, the execution strategies with their order      *)
(* polling loops, the balance and direction caches, and the exchange       *)
(* gateway the engine talks to.                                            *)
(*                                                                         *)
(* Units.  Quantities are counted in thousandths of a token (so that the   *)
(* flooring to 0.01 in create_order is not the identity), prices in        *)
(* minimum price increments (ticks of 0.0001).                             *)
(*                                                                         *)
(* Granularity.  The program is single threaded; the exchange acts only    *)
(* while the program is blocked in a gateway call or a sleep.  Every       *)
(* action is the code between two such suspension points and starts with   *)
(* the progress the exchange made meanwhile (Progress).                    *)
(***************************************************************************)
EXTENDS Integers, Sequences, FiniteSets, TLC

VARIABLES
    pc,                   \* position of the single thread of control
    current_pair_index,   \* SmartMarketMaker.current_pair_index
    consecutive_failures, \* local of monitor_and_trade
    iter,                 \* scheduler iterations started so far
    failure_streak,       \* history, per pair: failed cycles since its last success or
                          \* early rotation (the program keeps no such count)
    horizon,              \* how far this run is followed: iterations, and the
                          \* iterations in which a strategy may be started
    clock,                \* int(time.time() * 1000), as last read
    faults,               \* irregular events the exchange may still produce
    strategy,             \* TradingPairConfig.strategy, per pair
    pair_states,          \* pair_states[symbol]: volume, trade_count, successful_trades
    order_book,           \* pair_states[symbol]['order_book'], top of book
    last_prices,          \* pair_states[symbol]['last_prices']
    appended,             \* history: the mid prices ever appended to last_prices, per pair
    cache,                \* AsterDexClient._balance_cache, per account
    real,                 \* the balances held by the exchange, per account
    direction,            \* _trade_direction_cache, per pair: <<seller, buyer>>
    dir_from,             \* the cached balances the last recomputation of direction read
    orders,               \* orders passed to create_order in this iteration, in order
    cancels,              \* clientOrderIds a cancel was issued for in this iteration
    seen_filled,          \* clientOrderIds a status poll has shown FILLED
    total_volume,         \* SmartMarketMaker.total_volume
    strategy_performance, \* strategy_performance[symbol][strategy]: the counts
    f,                    \* locals of the running cycle and strategy
    outcome               \* what the last execute_trading_cycle handed the scheduler

vars == <<pc, current_pair_index, consecutive_failures, iter, failure_streak,
          horizon, clock, faults, strategy, pair_states, order_book, last_prices, appended,
          cache, real, direction, dir_from, orders, cancels, seen_filled, total_volume,
          strategy_performance, f, outcome>>

----------------------------------------------------------------------------
(* Bounds of the exploration *)

MaxIter == 2
MaxSchedIter == 4
MaxSchedTrades == 4
MaxPolls == 3
MaxFaults == 1
MaxTrades == 1
MaxRefresh == 12
MaxAttempts == 6
ClockStride == 8

(* Program constants *)

NPairs == 2
FixedBuyQuantity == 10
TargetVolume == 20
MaxSpreadPermille == 2
MaxPriceChangePermille == 5
MinDepthMultiplier == 2
PriceHistorySize == 10
MinSpreadThreshold == 5        \* pair.min_price_increment * 5, in ten-thousandths
MinSamples == 5
MaxRetry == 3
SellCeiling == 5000
MinAsterBalance == 10
AsterBuyQuantity == 5
AsterMaxAttempts == 3
FailuresBeforeRotation == 3
HighLiquiditySpreadPermille == 1
HighLiquidityDepth == 10

Milli == 10 * 10 * 10          \* thousandths per token
LotStep == Milli \div 100      \* 0.01 token, the step create_order floors to
DustLimit == Milli \div 10     \* 0.1 token, handle_partial_limit_sell/buy
Q == FixedBuyQuantity * Milli  \* pair.fixed_buy_quantity
Ceiling == SellCeiling * Milli \* the 5000 of strategy_limit_both
Tick == 1                      \* pair.min_price_increment

Accounts == {1, 2}
Pairs == 0 .. (NPairs - 1)
HedgeStrategies == {"limit_both", "market_only", "limit_market"}

Min(a, b) == IF a <= b THEN a ELSE b
Abs(x) == IF x < 0 THEN -x ELSE x

----------------------------------------------------------------------------
(* AsterDexClient: the account balances *)

\* get_asset_balance(asset): free + locked of the cached balances
BaseBalance(c, a, p) == c[a].base[p]

\* refresh_balance_cache / get_account_balance(force_refresh=True)
\* get_account_balance without the early return: every read asks the gateway
GetAccountBalanceFresh(c, r) == r

\* get_account_balance(): the cache c once it is populated, whatever the exchange
\* holds (r)
GetAccountBalance(c, r) == c

Refreshed(c, r, a) == [c EXCEPT ![a] = r[a]]
RefreshedBoth(c, r) == Refreshed(Refreshed(c, r, 1), r, 2)

----------------------------------------------------------------------------
(* Balance and direction cache *)

\* determine_trade_direction with > for >=: a tie would make account 2 the seller
DetermineTradeDirectionStrict(c, p) ==
    IF BaseBalance(c, 1, p) > BaseBalance(c, 2, p) THEN <<1, 2>> ELSE <<2, 1>>

\* determine_trade_direction: <<sell_client_name, buy_client_name>>
DetermineTradeDirection(c, p) ==
    IF BaseBalance(c, 1, p) >= BaseBalance(c, 2, p) THEN <<1, 2>> ELSE <<2, 1>>

\* the balances determine_trade_direction reads
DirectionInputs(c, p) == <<BaseBalance(c, 1, p), BaseBalance(c, 2, p)>>

\* get_sell_quantity: the cached balance of the selling account
GetSellQuantity(c, seller, p) == BaseBalance(c, seller, p)

----------------------------------------------------------------------------
(* Market snapshot *)

EmptyBook == [bid |-> 0, ask |-> 0, bid_qty |-> 0, ask_qty |-> 0]

\* get_best_bid_ask: (0, 0, 0, 0) when no snapshot is cached
GetBestBidAsk(p) == order_book[p]

\* calculate_spread_percentage(bid, ask) > limit, with limit in permille;
\* float('inf') when a side is zero
SpreadExceeds(bid, ask, permille) ==
    IF bid = 0 \/ ask = 0 THEN TRUE
    ELSE (ask - bid) * 1000 > permille * bid

\* calculate_price_volatility(pair) > limit: the largest relative step of the
\* rolling window; prices are kept doubled (bid + ask) so that mid prices are integers
VolatilityExceeds(prices, permille) ==
    /\ Len(prices) >= 2
    /\ \E i \in 2 .. Len(prices) :
          /\ prices[i - 1] # 0
          /\ Abs(prices[i] - prices[i - 1]) * 1000 > permille * prices[i - 1]

\* the window after appending a mid price, nothing evicted
AppendedUnbounded(prices, mid2) == Append(prices, mid2)

\* update_order_book: the rolling window after appending a mid price
Appended(prices, mid2) ==
    LET s == Append(prices, mid2)
    IN  IF Len(s) > PriceHistorySize THEN Tail(s) ELSE s

----------------------------------------------------------------------------
(* Exchange gateway: orders *)

OpenStatus == {"NEW", "PARTIALLY_FILLED"}

\* create_order: formatted_quantity = round(floor(quantity / 0.01) * 0.01, 2)
FormatQuantity(q) == (q \div LotStep) * LotStep

NoId == <<-1, "", 0, "">>

\* f"{name.lower()[-2:-1]}_{base}_{kind}_{timestamp}{suffix}": the account letter is
\* 't' for both accounts ('account1'[-2:-1]), so it does not tell ids apart
OrderId(base, kind, ts, sfx) == <<base, kind, ts, sfx>>
WithSuffix(id, sfx) == <<id[1], id[2], id[3], id[4] \o sfx>>

Known(os, id) == \E i \in 1 .. Len(os) : os[i].id = id /\ os[i].status # "REJECTED"
\* the order the exchange holds under a clientOrderId (the latest accepted one)
Latest(os, id) ==
    LET I == {i \in 1 .. Len(os) : os[i].id = id /\ os[i].status # "REJECTED"}
    IN  CHOOSE i \in I : \A j \in I : j <= i

\* get_order(symbol, origClientOrderId).get('status'); "NONE" for an error response
StatusOf(os, id) == IF Known(os, id) THEN os[Latest(os, id)].status ELSE "NONE"
\* float(get_order(...).get('executedQty', 0))
ExecutedOf(os, id) == IF Known(os, id) THEN os[Latest(os, id)].exec ELSE 0

\* cancel_order: an open order becomes CANCELED and keeps what it executed
Cancelled(os, id) ==
    IF Known(os, id) /\ os[Latest(os, id)].status \in OpenStatus
    THEN [os EXCEPT ![Latest(os, id)].status = "CANCELED"]
    ELSE os

\* what the exchange may have done to one order since the last step
OrderNext(o) ==
    IF o.status \notin OpenStatus THEN {o}
    ELSE {o}
         \cup {[o EXCEPT !.exec = o.qty, !.status = "FILLED"]}
         \cup (IF o.exec = 0 /\ o.qty > LotStep
               THEN {[o EXCEPT !.exec = FormatQuantity(o.qty \div 2),
                               !.status = "PARTIALLY_FILLED"]}
               ELSE {})
         \cup (IF o.type = "MARKET"
               THEN {[o EXCEPT !.status = "EXPIRED"]}
               ELSE {})

RECURSIVE Moves(_)
Moves(os) ==
    IF os = <<>> THEN {<<>>}
    ELSE {<<h>> \o t : h \in OrderNext(Head(os)), t \in Moves(Tail(os))}

\* irregular events among the moves from os to ns: an order turned
\* PARTIALLY_FILLED or EXPIRED
Irregular(os, ns) ==
    Cardinality({i \in 1 .. Len(os) :
                    ns[i].status # os[i].status
                    /\ ns[i].status \in {"PARTIALLY_FILLED", "EXPIRED"}})

\* the order states the exchange may have reached since the last step
ProgressWithin(os, budget) == {ns \in Moves(os) : Irregular(os, ns) <= budget}
Progress(os) == ProgressWithin(os, faults)

\* the balances after the fills that took os to ns
RECURSIVE Delta(_, _, _, _)
Delta(os, ns, a, p) ==
    IF os = <<>> THEN 0
    ELSE (IF Head(os).acct = a /\ Head(os).pair = p /\ Head(os).asset = "base"
          THEN (IF Head(os).side = "BUY" THEN 1 ELSE -1) * (Head(ns).exec - Head(os).exec)
          ELSE 0)
         + Delta(Tail(os), Tail(ns), a, p)

Settled(r, os, ns) ==
    [a \in Accounts |->
        [r[a] EXCEPT !.base = [p \in Pairs |-> r[a].base[p] + Delta(os, ns, a, p)]]]

\* base asset an account can still sell: its balance less what open sells hold
RECURSIVE Locked(_, _, _)
Locked(os, a, p) ==
    IF os = <<>> THEN 0
    ELSE (IF Head(os).acct = a /\ Head(os).pair = p /\ Head(os).side = "SELL"
             /\ Head(os).asset = "base" /\ Head(os).status \in OpenStatus
          THEN Head(os).qty - Head(os).exec ELSE 0)
         + Locked(Tail(os), a, p)

\* the exchange must reject: nothing to trade after flooring, or more than the
\* account holds
MustReject(os, r, o) ==
    \/ o.qty <= 0
    \/ o.side = "SELL" /\ o.asset = "base"
          /\ o.qty > r[o.acct].base[o.pair] - Locked(os, o.acct, o.pair)

\* a clientOrderId that an open order carries: the exchange may refuse it
Duplicate(os, o) == Known(os, o.id) /\ os[Latest(os, o.id)].status \in OpenStatus

\* the answers create_order can get: 'orderId' in the response or not
Answers(os, r, o, budget) ==
    IF MustReject(os, r, o) THEN {FALSE}
    ELSE IF budget > 0 \/ Duplicate(os, o) THEN {TRUE, FALSE} ELSE {TRUE}

\* the budget left after an answer: a rejection the exchange was not bound to give
\* is an irregular event
Spend(os, r, o, ok, budget) ==
    IF ~ok /\ ~MustReject(os, r, o) /\ ~Duplicate(os, o) THEN budget - 1 ELSE budget

\* an order as passed to create_order; avail is the cached base balance of the
\* account at that moment, leg and role say what the order is for
Order(id, a, p, side, type, qty, leg, role, by) ==
    [id |-> id, acct |-> a, pair |-> p, side |-> side, type |-> type,
     asset |-> "base", req |-> qty, qty |-> FormatQuantity(qty), exec |-> 0,
     status |-> "NEW", leg |-> leg, role |-> role, by |-> by,
     avail |-> cache[a].base[p]]

Placed(os, o, ok) == Append(os, [o EXCEPT !.status = IF ok THEN "NEW" ELSE "REJECTED"])

----------------------------------------------------------------------------
(* The environment the engine is started in *)

\* order books the depth endpoint may return: bid, ask in ticks, sizes in thousandths
TightBook == [bid |-> 2000, ask |-> 2001, bid_qty |-> 200 * Milli, ask_qty |-> 200 * Milli]
BidHeavyBook == [bid |-> 2000, ask |-> 2001, bid_qty |-> 90 * Milli, ask_qty |-> 50 * Milli]
WideBook == [bid |-> 2000, ask |-> 2006, bid_qty |-> 200 * Milli, ask_qty |-> 200 * Milli]
CrossedBook == [bid |-> 2003, ask |-> 2000, bid_qty |-> 200 * Milli, ask_qty |-> 200 * Milli]
Books == {TightBook, BidHeavyBook, WideBook, CrossedBook}

\* holdings the two accounts may start with: base asset (the same on every pair),
\* USDT and ASTER of account 1 and account 2
UsdtAmple == 4 * Q * 2000
Holding(b1, b2, u1, u2, s1, s2) ==
    [a \in Accounts |->
        [base |-> [p \in Pairs |-> IF a = 1 THEN b1 ELSE b2],
         usdt |-> IF a = 1 THEN u1 ELSE u2,
         aster |-> IF a = 1 THEN s1 ELSE s2]]
InitHoldings ==
    {Holding(0, 0, UsdtAmple, UsdtAmple, MinAsterBalance, MinAsterBalance),
     Holding(10 * Milli + 4, 3 * Milli, UsdtAmple, UsdtAmple, MinAsterBalance, MinAsterBalance),
     Holding(3 * Milli, 6000 * Milli, UsdtAmple, UsdtAmple, MinAsterBalance, MinAsterBalance),
     Holding(10 * Milli + 4, 10 * Milli + 4, UsdtAmple, UsdtAmple, MinAsterBalance, MinAsterBalance),
     Holding(10 * Milli + 4, 3 * Milli, UsdtAmple, UsdtAmple, AsterBuyQuantity, MinAsterBalance),
     Holding(3 * Milli, 10 * Milli + 4, 0, UsdtAmple, MinAsterBalance, MinAsterBalance),
     Holding(0, 0, UsdtAmple \div 2, UsdtAmple, MinAsterBalance, MinAsterBalance),
     Holding(0, 0, 0, 0, MinAsterBalance, MinAsterBalance)}
InitStrategies == HedgeStrategies \cup {"both"}
SchedHoldings ==
    {Holding(10 * Milli + 4, 3 * Milli, UsdtAmple, UsdtAmple, MinAsterBalance, MinAsterBalance),
     Holding(3 * Milli, 10 * Milli + 4, 0, UsdtAmple, MinAsterBalance, MinAsterBalance)}

\* locals of a cycle before any strategy has run
F0 == [mode |-> "none", actual |-> "none", chain |-> 0, ts |-> 0, sc |-> 0, bc |-> 0,
       sell_id |-> NoId, buy_id |-> NoId, sell_quantity |-> 0, buy_quantity |-> 0,
       sell_filled |-> FALSE, buy_filled |-> FALSE, sell_exec |-> 0, buy_exec |-> 0,
       sell_price |-> 0, buy_price |-> 0, initial_bid |-> 0, initial_ask |-> 0,
       late |-> FALSE, limit_side |-> "none", was_limit |-> TRUE, partial |-> FALSE,
       polls |-> 0, awaiting |-> <<>>, completed |-> <<>>, ret |-> "none",
       result |-> FALSE]

\* SmartMarketMaker.__init__ and start(): caches loaded, directions computed
StartedWith(h, irregular, strategies, holdings, books, histories) ==
    /\ pc = "loop"
    /\ current_pair_index = 0
    /\ consecutive_failures = 0
    /\ iter = 0
    /\ failure_streak = [p \in Pairs |-> 0]
    /\ horizon = h
    /\ clock = 0
    /\ faults = irregular
    /\ \E s \in strategies : strategy = [p \in Pairs |-> s]
    /\ pair_states = [p \in Pairs |-> [volume |-> 0, trade_count |-> 0, successful_trades |-> 0]]
    /\ \E b \in books : order_book = [p \in Pairs |-> b]
    /\ \E prices \in histories :
          /\ last_prices = [p \in Pairs |-> prices]
          /\ appended = [p \in Pairs |-> Len(prices)]
    /\ real \in holdings
    /\ cache = real
    /\ direction = [p \in Pairs |-> DetermineTradeDirection(cache, p)]
    /\ dir_from = [p \in Pairs |-> DirectionInputs(cache, p)]
    /\ orders = <<>>
    /\ cancels = {}
    /\ seen_filled = {}
    /\ total_volume = 0
    /\ strategy_performance =
          [p \in Pairs |-> [s \in HedgeStrategies |-> [total_count |-> 0, success_count |-> 0]]]
    /\ f = F0
    /\ outcome = "none"

\* no snapshot and no price yet
Started(h, irregular, strategies, holdings) ==
    StartedWith(h, irregular, strategies, holdings, {EmptyBook}, {<<>>})

Init ==
    Started([iters |-> MaxIter, trades |-> MaxTrades], MaxFaults, InitStrategies, InitHoldings)

\* the same start, with one configuration followed over a longer run in which the
\* exchange produces no irregular event
SchedInit ==
    \/ Init
    \/ Started([iters |-> MaxSchedIter, trades |-> MaxSchedTrades],
               0, {"market_only"}, SchedHoldings)

----------------------------------------------------------------------------
(* Pair scheduler: monitor_and_trade *)

\* the pair after the active one
CurrentPairAhead == (current_pair_index + 1) % NPairs

\* get_current_trading_pair
CurrentPair == current_pair_index

\* switch_to_next_pair
SwitchToNextPair(i) == (i + 1) % NPairs

\* update_order_book stores whatever get_order_book returned
SnapshotUnchecked(old, b) == b

\* update_order_book: the snapshot kept when get_order_book returned b; EmptyBook
\* stands for a gateway error or a book with an empty side
Snapshot(old, b) == IF b # EmptyBook THEN b ELSE old

\* update_order_book(pair) when get_order_book returns b
UpdateOrderBook(p, b) ==
    /\ order_book' = [order_book EXCEPT ![p] = Snapshot(@, b)]
    /\ last_prices' = [last_prices EXCEPT
                          ![p] = IF b # EmptyBook THEN Appended(@, b.bid + b.ask) ELSE @]
    /\ appended' = [appended EXCEPT ![p] = IF b # EmptyBook THEN @ + 1 ELSE @]

\* top of the loop: cancel_all_orders for the pair on both accounts, update_order_book
IterTop ==
    /\ pc = "loop"
    /\ iter < horizon.iters
    /\ iter' = iter + 1
    /\ \E b \in Books \cup {EmptyBook} : UpdateOrderBook(CurrentPair, b)
    /\ clock' = iter' * ClockStride
    /\ pc' = "check"
    /\ UNCHANGED <<current_pair_index, consecutive_failures, failure_streak, horizon,
                   faults, strategy, pair_states, cache, real, direction, dir_from,
                   total_volume,
                   strategy_performance, orders, cancels, seen_filled, f, outcome>>

\* no except clause around the loop body
CaughtNothing == {}

\* what the except clause of the loop body catches of a cycle: lines 2944-2946
Caught == {"raised"}

\* the rest of the loop body after execute_trading_cycle returned or raised
EndIteration ==
    /\ pc = "end"
    /\ outcome \in {"success", "failure", "rejected"} \cup Caught
    /\ LET p == CurrentPair
           reached == pair_states[p].volume >= TargetVolume
           failed == consecutive_failures + 1
       IN  CASE outcome = "success" ->
                  /\ consecutive_failures' = 0
                  /\ current_pair_index' =
                        SwitchToNextPair(IF reached THEN SwitchToNextPair(p) ELSE p)
             [] outcome \in {"failure", "rejected"} ->
                  /\ consecutive_failures' =
                        IF failed >= FailuresBeforeRotation THEN 0 ELSE failed
                  /\ current_pair_index' =
                        SwitchToNextPair(IF failed >= FailuresBeforeRotation
                                         THEN SwitchToNextPair(p) ELSE p)
             [] OTHER ->
                  \* the except branch: nothing but a sleep
                  UNCHANGED <<consecutive_failures, current_pair_index>>
    /\ failure_streak' =
          [failure_streak EXCEPT
             ![CurrentPair] = IF outcome = "success" \/ @ + 1 >= FailuresBeforeRotation
                              THEN 0 ELSE @ + 1]
    /\ pc' = "loop"
    /\ outcome' = "none"
    \* the iteration's orders and locals are history now; orders still open are
    \* not followed beyond the iteration that placed them
    /\ orders' = <<>>
    /\ cancels' = {}
    /\ seen_filled' = {}
    /\ f' = F0
    /\ UNCHANGED <<iter, horizon, clock, faults, strategy, pair_states, order_book,
                   last_prices, appended, cache, real, direction, dir_from, total_volume,
                   strategy_performance>>

----------------------------------------------------------------------------
(* execute_trading_cycle, first half: check_market_conditions *)

\* the state every action leaves alone unless it says otherwise
Config == <<strategy, horizon>>
Sched == <<current_pair_index, consecutive_failures, iter, failure_streak>>
Stats == <<pair_states, total_volume, strategy_performance>>
Market == <<order_book, last_prices, appended>>

\* state['trade_count'] += 1 placed before the test of market_ok
TradeCountEager(n, market_ok) == n + 1

\* execute_trading_cycle lines 1398-1404: the attempt is counted after the return on
\* a false market_ok
TradeCount(n, market_ok) == IF market_ok THEN n + 1 ELSE n

\* execute_trading_cycle line 1400: market_ok is false, the cycle returns False
Rejected ==
    /\ pc' = "end"
    /\ outcome' = "rejected"
    /\ pair_states' = [pair_states EXCEPT
                         ![CurrentPair].trade_count = TradeCount(@, FALSE)]

\* final_success with or for and: one account at the minimum is enough
FinalSuccessEither(c) == \E a \in Accounts : c[a].aster >= MinAsterBalance

\* check_and_buy_aster_if_needed lines 654-655: final_success, read from the
\* refreshed balances
FinalSuccess(c) == \A a \in Accounts : c[a].aster >= MinAsterBalance

\* the ASTER orders of buy_aster_for_account: n attempts, the last one filled or not
\* (the purchase succeeds at once or fails AsterMaxAttempts times)
AsterOrders(a, n, got, t0) ==
    [i \in 1 .. n |->
        [id |-> OrderId(-1, IF a = 1 THEN "account1_aster_buy" ELSE "account2_aster_buy",
                        t0 + i, ""),
         acct |-> a, pair |-> -1, side |-> "BUY", type |-> "LIMIT", asset |-> "aster",
         req |-> AsterBuyQuantity * Milli, qty |-> AsterBuyQuantity * Milli,
         exec |-> IF got /\ i = n THEN AsterBuyQuantity * Milli ELSE 0,
         status |-> IF got /\ i = n THEN "FILLED" ELSE "CANCELED",
         leg |-> "aster", role |-> "topup", by |-> "aster", avail |-> 0]]

\* check_market_conditions lines 1229-1231 with check_and_buy_aster_if_needed
CheckAster ==
    /\ pc = "check"
    /\ LET low == {a \in Accounts : cache[a].aster < MinAsterBalance}
       IN  IF low = {}
           THEN /\ pc' = "check_bal"
                /\ UNCHANGED <<cache, real, orders, clock, outcome, pair_states>>
           ELSE \E got \in [Accounts -> BOOLEAN] :
                  /\ \A a \in Accounts : got[a] => (a \in low /\ cache[a].usdt > 0)
                  /\ LET n == [a \in Accounts |->
                                 IF a \notin low \/ cache[a].usdt = 0 THEN 0
                                 ELSE IF got[a] THEN 1 ELSE AsterMaxAttempts]
                         r2 == [a \in Accounts |->
                                  IF got[a] THEN [real[a] EXCEPT !.aster = @ + AsterBuyQuantity]
                                  ELSE real[a]]
                         c2 == RefreshedBoth(cache, r2)
                     IN  /\ real' = r2
                         /\ cache' = c2
                         /\ orders' = orders \o AsterOrders(1, n[1], got[1], clock)
                                             \o AsterOrders(2, n[2], got[2], clock + n[1])
                         /\ clock' = clock + n[1] + n[2]
                         /\ IF FinalSuccess(c2)
                            THEN pc' = "check_bal" /\ UNCHANGED <<outcome, pair_states>>
                            ELSE Rejected
    /\ UNCHANGED <<Config, Sched, total_volume, strategy_performance, Market, faults,
                   direction, dir_from, cancels, seen_filled, f>>

\* a strategy is entered: execute_trading_cycle lines 1403-1435
StartPc(s) == IF s = "both" THEN "limit_both" ELSE s

\* strategies are followed in the first MaxTrades iterations; later iterations
\* are followed up to this point
Dispatch(p, mode, actual) ==
    /\ iter <= horizon.trades
    /\ pair_states' = [pair_states EXCEPT ![p].trade_count = TradeCount(@, TRUE)]
    /\ f' = [F0 EXCEPT !.mode = mode, !.actual = actual,
                       !.chain = IF actual = "both" THEN 1 ELSE 0]
    /\ pc' = IF mode = "sell_only" THEN "sell_only" ELSE StartPc(actual)

\* account 1 buys whenever it has any USDT
InitBuyerFirst(c) == IF c[1].usdt > 0 THEN 1 ELSE IF c[2].usdt > 0 THEN 2 ELSE 0

\* initialize_at_balance, lines 881-893: the account that buys, 0 if neither can
InitBuyer(c) ==
    IF c[1].usdt >= c[2].usdt /\ c[1].usdt > 0 THEN 1
    ELSE IF c[2].usdt > 0 THEN 2 ELSE 0

\* check_market_conditions lines 1234-1253 with initialize_at_balance up to its wait
CheckBalances ==
    /\ pc = "check_bal"
    /\ LET p == CurrentPair
           a1 == BaseBalance(cache, 1, p)
           a2 == BaseBalance(cache, 2, p)
           buyer == InitBuyer(cache)
           b == GetBestBidAsk(p)
       IN  IF 2 * a1 >= Q /\ 2 * a2 >= Q
           THEN /\ Dispatch(p, "sell_only", "market_only")
                /\ UNCHANGED <<orders, clock, faults, outcome>>
           ELSE IF 2 * a1 < Q /\ 2 * a2 < Q
           THEN IF buyer = 0 \/ b.bid = 0 \/ b.ask = 0
                THEN /\ Rejected
                     /\ UNCHANGED <<orders, clock, faults, f>>
                ELSE LET qty == Min(Q, cache[buyer].usdt \div (b.bid + b.ask))
                         id == OrderId(p, "ib", clock + 1, "")
                         o == Order(id, buyer, p, "BUY", "MARKET", qty, "init", "leg", "init")
                     IN  IF qty <= 0
                         THEN /\ Rejected
                              /\ UNCHANGED <<orders, clock, faults, f>>
                         ELSE \E ok \in Answers(orders, real, o, faults) :
                                /\ orders' = Placed(orders, o, ok)
                                /\ clock' = clock + 1
                                /\ faults' = Spend(orders, real, o, ok, faults)
                                /\ IF ok
                                   THEN /\ pc' = "wait"
                                        /\ f' = [F0 EXCEPT !.awaiting = <<id>>,
                                                           !.completed = <<FALSE>>,
                                                           !.ret = "init_ret"]
                                        /\ UNCHANGED <<outcome, pair_states>>
                                   ELSE Rejected /\ UNCHANGED f
           ELSE /\ pc' = "check_cond"
                /\ UNCHANGED <<orders, clock, faults, pair_states, f, outcome>>
    /\ UNCHANGED <<Config, Sched, Market, total_volume, strategy_performance, cache, real,
                   direction, dir_from, cancels, seen_filled>>

\* initialize_at_balance lines 929-939, back in check_market_conditions line 1249
InitReturn ==
    /\ pc = "init_ret"
    /\ IF f.result
       THEN /\ cache' = RefreshedBoth(cache, real)
            /\ pc' = "check_cond"
            /\ UNCHANGED <<outcome, pair_states>>
       ELSE Rejected /\ UNCHANGED cache
    /\ UNCHANGED <<Config, Sched, total_volume, strategy_performance, Market, clock,
                   faults, real, direction, dir_from, orders, cancels, seen_filled, f>>

\* check_sell_conditions and check_buy_conditions on cached balances and direction
Cond(tag, c, d, p) ==
    IF tag = "sell"
    THEN GetSellQuantity(c, d[1], p) > 0
    ELSE LET b == GetBestBidAsk(p)
         IN  b.bid # 0 /\ b.ask # 0 /\ 2 * c[d[2]].usdt >= Q * (b.bid + b.ask)

\* check_sell_conditions_with_retry / check_buy_conditions_with_retry: between two
\* checks both caches are refreshed and the direction recomputed
RECURSIVE Retry(_, _, _, _, _, _, _)
Retry(tag, c, d, df, r, p, attempt) ==
    IF attempt >= MaxRetry THEN [ok |-> FALSE, c |-> c, d |-> d, df |-> df]
    ELSE IF Cond(tag, c, d, p) THEN [ok |-> TRUE, c |-> c, d |-> d, df |-> df]
    ELSE IF attempt < MaxRetry - 1
    THEN LET c2 == RefreshedBoth(c, r)
         IN  Retry(tag, c2, DetermineTradeDirection(c2, p), DirectionInputs(c2, p),
                   r, p, attempt + 1)
    ELSE Retry(tag, c, d, df, r, p, attempt + 1)

\* check_market_conditions without the spread check of lines 1271-1274
MarketOkNoSpread(b, prices) ==
    /\ b.bid # 0 /\ b.ask # 0
    /\ ~VolatilityExceeds(prices, MaxPriceChangePermille)
    /\ b.bid_qty >= Q * MinDepthMultiplier
    /\ b.ask_qty >= Q * MinDepthMultiplier

\* check_market_conditions lines 1266-1287: price, spread, volatility, depth
MarketOk(b, prices) ==
    /\ b.bid # 0 /\ b.ask # 0
    /\ ~SpreadExceeds(b.bid, b.ask, MaxSpreadPermille)
    /\ ~VolatilityExceeds(prices, MaxPriceChangePermille)
    /\ b.bid_qty >= Q * MinDepthMultiplier
    /\ b.ask_qty >= Q * MinDepthMultiplier

\* check_market_conditions lines 1256-1294
CheckConditions ==
    /\ pc = "check_cond"
    /\ \E ns \in Progress(orders) :
          LET p == CurrentPair
              r2 == Settled(real, orders, ns)
              s == Retry("sell", cache, direction[p], dir_from[p], r2, p, 0)
              t == IF s.ok THEN Retry("buy", s.c, s.d, s.df, r2, p, 0) ELSE s
          IN  /\ orders' = ns
              /\ faults' = faults - Irregular(orders, ns)
              /\ real' = r2
              /\ cache' = t.c
              /\ direction' = [direction EXCEPT ![p] = t.d]
              /\ dir_from' = [dir_from EXCEPT ![p] = t.df]
              /\ IF t.ok /\ MarketOk(GetBestBidAsk(p), last_prices[p])
                 THEN Dispatch(p, "normal", strategy[p]) /\ UNCHANGED outcome
                 ELSE Rejected /\ UNCHANGED f
    /\ UNCHANGED <<Config, Sched, Market, total_volume, strategy_performance, clock,
                   cancels, seen_filled>>

----------------------------------------------------------------------------
(* The steps of a strategy *)

\* what a strategy carries through one step: the orders and balances at the exchange,
\* the cancels issued, the irregular events left, its locals, the ids polled FILLED
\* and the answer to the last create_order
Machine(ns) ==
    [os |-> ns, r |-> Settled(real, orders, ns),
     c |-> GetAccountBalance(cache, Settled(real, orders, ns)), cancels |-> cancels,
     budget |-> faults - Irregular(orders, ns), f |-> f, seen |-> seen_filled, ok |-> TRUE,
     exit |-> "loop"]

\* the program sleeps or waits for an answer: the exchange moves on
Slept(m) ==
    {[m EXCEPT !.os = ns, !.r = Settled(m.r, m.os, ns), !.budget = @ - Irregular(m.os, ns)] :
        ns \in ProgressWithin(m.os, m.budget)}

\* client.create_order(...) and its 'orderId' in response
Submit(m, o) ==
    {[m EXCEPT !.os = Placed(m.os, o, ok), !.budget = Spend(m.os, m.r, o, ok, m.budget),
               !.ok = ok] : ok \in Answers(m.os, m.r, o, m.budget)}

\* a cancel_order call that is left out
CancelNotIssued(m, id) == m

\* client.cancel_order(symbol, origClientOrderId=id)
Cancel(m, id) == [m EXCEPT !.os = Cancelled(m.os, id), !.cancels = @ \cup {id}]

\* the step ends: the machine becomes the state
Finish(m, pcn, fr) ==
    /\ orders' = m.os
    /\ real' = m.r
    /\ cache' = m.c
    /\ cancels' = m.cancels
    /\ faults' = m.budget
    /\ seen_filled' = m.seen
    /\ f' = fr
    /\ pc' = pcn

----------------------------------------------------------------------------
(* wait_for_orders_completion *)

\* the for loop without its elif branch: an order seen CANCELED, REJECTED or EXPIRED
\* is polled again like an open one
RECURSIVE WaitScanNoFailure(_, _, _, _)
WaitScanNoFailure(os, ids, comp, i) ==
    IF i > Len(ids) THEN [comp |-> comp, failed |-> 0]
    ELSE IF comp[i] THEN WaitScanNoFailure(os, ids, comp, i + 1)
    ELSE IF StatusOf(os, ids[i]) \in {"FILLED", "PARTIALLY_FILLED"}
         THEN WaitScanNoFailure(os, ids, [comp EXCEPT ![i] = TRUE], i + 1)
         ELSE WaitScanNoFailure(os, ids, comp, i + 1)

\* one pass of the for loop over the awaited orders: which are completed now, and
\* the index of the order seen CANCELED, REJECTED or EXPIRED (0 if none)
RECURSIVE WaitScan(_, _, _, _)
WaitScan(os, ids, comp, i) ==
    IF i > Len(ids) THEN [comp |-> comp, failed |-> 0]
    ELSE IF comp[i] THEN WaitScan(os, ids, comp, i + 1)
    ELSE LET st == StatusOf(os, ids[i])
         IN  IF st \in {"FILLED", "PARTIALLY_FILLED"}
             THEN WaitScan(os, ids, [comp EXCEPT ![i] = TRUE], i + 1)
             ELSE IF st \in {"CANCELED", "REJECTED", "EXPIRED"}
             THEN [comp |-> comp, failed |-> i]
             ELSE WaitScan(os, ids, comp, i + 1)

RECURSIVE CancelAll(_, _)
CancelAll(os, ids) ==
    IF ids = <<>> THEN os ELSE CancelAll(Cancelled(os, Head(ids)), Tail(ids))

SelectIds(ids, keep) == SelectSeq(ids, LAMBDA x : x \in keep)

\* one iteration of the while loop
WaitPoll ==
    /\ pc = "wait"
    /\ f.polls < MaxPolls
    /\ \E ns \in Progress(orders) :
          LET ids == f.awaiting
              sc == WaitScan(ns, ids, f.completed, 1)
              polled == {i \in 1 .. Len(ids) :
                            ~f.completed[i] /\ (sc.failed = 0 \/ i <= sc.failed)}
              others == {ids[j] : j \in {j \in 1 .. Len(ids) :
                                           j # sc.failed /\ ~sc.comp[j]}}
          IN  /\ real' = Settled(real, orders, ns)
              /\ faults' = faults - Irregular(orders, ns)
              /\ seen_filled' = seen_filled \cup
                                  {ids[i] : i \in {i \in polled : StatusOf(ns, ids[i]) = "FILLED"}}
              /\ IF sc.failed # 0
                 THEN /\ orders' = CancelAll(ns, SelectIds(ids, others))
                      /\ cancels' = cancels \cup others
                      /\ f' = [f EXCEPT !.completed = sc.comp, !.result = FALSE]
                      /\ pc' = f.ret
                 ELSE /\ orders' = ns
                      /\ UNCHANGED cancels
                      /\ IF \A i \in 1 .. Len(ids) : sc.comp[i]
                         THEN /\ f' = [f EXCEPT !.completed = sc.comp, !.result = TRUE]
                              /\ pc' = f.ret
                         ELSE /\ f' = [f EXCEPT !.completed = sc.comp, !.polls = @ + 1]
                              /\ pc' = "wait"
    /\ UNCHANGED <<Config, Sched, Stats, Market, clock, cache, direction, dir_from,
                   outcome>>

\* the loop ran out of time: cancel what is not completed, return False
WaitTimeout ==
    /\ pc = "wait"
    /\ f.polls >= 1
    /\ \E ns \in Progress(orders) :
          LET ids == f.awaiting
              open == {ids[i] : i \in {i \in 1 .. Len(ids) : ~f.completed[i]}}
          IN  /\ real' = Settled(real, orders, ns)
              /\ faults' = faults - Irregular(orders, ns)
              /\ orders' = CancelAll(ns, SelectIds(ids, open))
              /\ cancels' = cancels \cup open
    /\ f' = [f EXCEPT !.result = FALSE]
    /\ pc' = f.ret
    /\ UNCHANGED <<Config, Sched, Stats, Market, clock, cache, direction, dir_from,
                   seen_filled, outcome>>

----------------------------------------------------------------------------
(* Strategy 2: strategy_market_only *)

\* lines 2105-2157: both market orders are submitted, then awaited
MarketOnly ==
    /\ pc = "market_only"
    /\ LET p == CurrentPair
           ts == clock + 1
           sc == direction[p][1]
           bc == direction[p][2]
           sid == OrderId(p, "s", ts, "")
           bid == OrderId(p, "b", ts, "")
           so == Order(sid, sc, p, "SELL", "MARKET", GetSellQuantity(cache, sc, p),
                       "sell", "leg", "market_only")
           bo == Order(bid, bc, p, "BUY", "MARKET", Q, "buy", "leg", "market_only")
           fr == [f EXCEPT !.ts = ts, !.sc = sc, !.bc = bc, !.sell_id = sid, !.buy_id = bid,
                           !.sell_quantity = so.req, !.buy_quantity = Q,
                           !.awaiting = <<sid, bid>>, !.completed = <<FALSE, FALSE>>,
                           !.polls = 0, !.ret = "ret"]
       IN  /\ clock' = ts
           /\ \E m1 \in Submit(Machine(orders), so) :
                IF ~m1.ok
                THEN Finish(m1, "ret", [fr EXCEPT !.result = FALSE])
                ELSE \E m1s \in Slept(m1) :
                     \E m2 \in Submit(m1s, bo) :
                        IF m2.ok
                        THEN Finish(m2, "wait", fr)
                        ELSE Finish(Cancel(m2, sid), "ret", [fr EXCEPT !.result = FALSE])
    /\ UNCHANGED <<Config, Sched, Stats, Market, direction, dir_from, outcome>>

----------------------------------------------------------------------------
(* Strategy 1: strategy_limit_both *)

\* lines 1796-1803, 1863-1865, 1888-1890: one tick inside the touch, never across it
LimitSellPrice(b) == IF b.ask - Tick <= b.bid THEN b.bid + Tick ELSE b.ask - Tick
LimitBuyPrice(b) == IF b.bid + Tick >= b.ask THEN b.ask - Tick ELSE b.bid + Tick

\* lines 1923-1924, 1956-1957: the touch moved more than three ticks
PriceChanged(current, initial) == Abs(current - initial) > Tick * 3

\* lines 1776-1836: both limit orders are posted
LimitBoth ==
    /\ pc = "limit_both"
    /\ LET p == CurrentPair
           b == GetBestBidAsk(p)
           ts == clock + 1
           sc == direction[p][1]
           bc == direction[p][2]
           sid == OrderId(-1, "ls", ts, "")
           bid == OrderId(-1, "lb", ts, "")
           sq == Min(GetSellQuantity(cache, sc, p), Ceiling)
           so == Order(sid, sc, p, "SELL", "LIMIT", sq, "sell", "leg", "limit_both")
           bo == Order(bid, bc, p, "BUY", "LIMIT", Q, "buy", "leg", "limit_both")
           fr == [f EXCEPT !.ts = ts, !.sc = sc, !.bc = bc, !.sell_id = sid, !.buy_id = bid,
                           !.sell_quantity = sq, !.buy_quantity = Q,
                           !.sell_price = LimitSellPrice(b), !.buy_price = LimitBuyPrice(b),
                           !.initial_bid = b.bid, !.initial_ask = b.ask]
       IN  /\ clock' = ts
           /\ \E m1 \in Submit(Machine(orders), so) :
                IF ~m1.ok
                THEN Finish(m1, "ret", [fr EXCEPT !.result = FALSE])
                ELSE \E m1s \in Slept(m1) :
                     \E m2 \in Submit(m1s, bo) :
                        IF m2.ok
                        THEN Finish(m2, "limit_both_loop", fr)
                        ELSE Finish(Cancel(m2, sid), "ret", [fr EXCEPT !.result = FALSE])
    /\ UNCHANGED <<Config, Sched, Stats, Market, direction, dir_from, outcome>>

\* lines 1857-1879: the sell order is cancelled and posted again as <id>_r
RepostSell(m, b) ==
    IF ~m.f.sell_filled /\ b.ask < m.f.sell_price - Tick
    THEN LET o == Order(WithSuffix(m.f.sell_id, "_r"), m.f.sc, CurrentPair, "SELL", "LIMIT",
                        m.f.sell_quantity - m.f.sell_exec, "sell", "repost", "limit_both")
         IN  {IF m2.ok THEN [m2 EXCEPT !.f.sell_price = LimitSellPrice(b)] ELSE m2 :
                 m2 \in Submit(Cancel(m, m.f.sell_id), o)}
    ELSE {m}

\* lines 1882-1904: the buy order is cancelled and posted again as <id>_r
RepostBuy(m, b) ==
    IF ~m.f.buy_filled /\ b.bid > m.f.buy_price + Tick
    THEN LET o == Order(WithSuffix(m.f.buy_id, "_r"), m.f.bc, CurrentPair, "BUY", "LIMIT",
                        m.f.buy_quantity - m.f.buy_exec, "buy", "repost", "limit_both")
         IN  {IF m2.ok THEN [m2 EXCEPT !.f.buy_price = LimitBuyPrice(b)] ELSE m2 :
                 m2 \in Submit(Cancel(m, m.f.buy_id), o)}
    ELSE {m}

\* the limit buy is cancelled and what it lacked, as last polled, bought at market;
\* an accepted market order is taken for filled
MarketFixBuy(m, sfx) ==
    LET m1 == Cancel(m, m.f.buy_id)
        o == Order(WithSuffix(m.f.buy_id, sfx), m.f.bc, CurrentPair, "BUY", "MARKET",
                   m.f.buy_quantity - m.f.buy_exec, "buy", "remedy", "limit_both")
    IN  IF m.f.buy_quantity - m.f.buy_exec > 0
        THEN {IF m2.ok THEN [m2 EXCEPT !.f.buy_filled = TRUE] ELSE m2 : m2 \in Submit(m1, o)}
        ELSE {m1}

MarketFixSell(m, sfx) ==
    LET m1 == Cancel(m, m.f.sell_id)
        o == Order(WithSuffix(m.f.sell_id, sfx), m.f.sc, CurrentPair, "SELL", "MARKET",
                   m.f.sell_quantity - m.f.sell_exec, "sell", "remedy", "limit_both")
    IN  IF m.f.sell_quantity - m.f.sell_exec > 0
        THEN {IF m2.ok THEN [m2 EXCEPT !.f.sell_filled = TRUE] ELSE m2 : m2 \in Submit(m1, o)}
        ELSE {m1}

\* lines 1908-1943: the sell order is polled under its original id
PollSell(m, b) ==
    IF m.f.sell_filled THEN {m}
    ELSE LET st == StatusOf(m.os, m.f.sell_id)
             m1 == [m EXCEPT !.f.sell_exec = ExecutedOf(m.os, m.f.sell_id),
                             !.f.sell_filled = (st = "FILLED"),
                             !.seen = IF st = "FILLED" THEN @ \cup {m.f.sell_id} ELSE @]
         IN  IF st = "FILLED" /\ ~m.f.buy_filled /\ PriceChanged(b.bid, m.f.initial_bid)
             THEN MarketFixBuy(m1, "_market")
             ELSE {m1}

\* lines 1945-1980: the buy order is polled under its original id
PollBuy(m, b) ==
    IF m.f.buy_filled THEN {m}
    ELSE LET st == StatusOf(m.os, m.f.buy_id)
             m1 == [m EXCEPT !.f.buy_exec = ExecutedOf(m.os, m.f.buy_id),
                             !.f.buy_filled = (st = "FILLED"),
                             !.seen = IF st = "FILLED" THEN @ \cup {m.f.buy_id} ELSE @]
         IN  IF st = "FILLED" /\ ~m.f.sell_filled /\ PriceChanged(b.ask, m.f.initial_ask)
             THEN MarketFixSell(m1, "_market")
             ELSE {m1}

\* lines 1989-2023: past 99% of the timeout the open leg goes to market
LateFix(m) ==
    IF m.f.sell_filled /\ ~m.f.buy_filled THEN MarketFixBuy(m, "_timeout_market")
    ELSE IF m.f.buy_filled /\ ~m.f.sell_filled THEN MarketFixSell(m, "_timeout_market")
    ELSE {m}

\* one iteration of the monitoring loop, lines 1847-2025, as far as it differs from
\* the one before: the first comes within the first second, every later one looks at
\* the market again (check); late: 99% of the timeout has passed
LimitBothPoll ==
    /\ pc = "limit_both_loop"
    /\ f.polls < MaxPolls
    /\ ~f.late
    /\ LET b == GetBestBidAsk(CurrentPair)
           later == IF f.polls >= 1 THEN BOOLEAN ELSE {FALSE}
           check == f.polls >= 1
       IN  \E ns \in Progress(orders), late \in later :
           \E m1 \in (IF check THEN RepostSell(Machine(ns), b) ELSE {Machine(ns)}) :
           \E m2 \in (IF check THEN RepostBuy(m1, b) ELSE {m1}) :
           \E m3 \in PollSell(m2, b) :
           \E m4 \in PollBuy(m3, b) :
              IF m4.f.sell_filled /\ m4.f.buy_filled
              THEN Finish(m4, "ret", [m4.f EXCEPT !.result = TRUE])
              ELSE \E m5 \in (IF late THEN LateFix(m4) ELSE {m4}) :
                      Finish(m5, "limit_both_loop",
                             [m5.f EXCEPT !.polls = @ + 1, !.late = late])
    /\ UNCHANGED <<Config, Sched, Stats, Market, clock, direction, dir_from, outcome>>

\* handle_timeout_orders: cancel what the last polls showed incomplete and send the
\* rest to market; success is every market order accepted
HandleTimeoutOrders(m) ==
    LET p == CurrentPair
        sell_open == m.f.sell_exec < m.f.sell_quantity
        buy_open == m.f.buy_exec < m.f.buy_quantity
        m1 == IF sell_open THEN Cancel(m, m.f.sell_id) ELSE m
        m2 == [(IF buy_open THEN Cancel(m1, m.f.buy_id) ELSE m1) EXCEPT !.ok = TRUE]
        so == Order(WithSuffix(m.f.sell_id, "_final_market"), m.f.sc, p, "SELL", "MARKET",
                    m.f.sell_quantity - m.f.sell_exec, "sell", "remedy", "limit_both")
        bo == Order(WithSuffix(m.f.buy_id, "_final_market"), m.f.bc, p, "BUY", "MARKET",
                    m.f.buy_quantity - m.f.buy_exec, "buy", "remedy", "limit_both")
        sold == IF sell_open THEN Submit(m2, so) ELSE {m2}
    IN  UNION {IF buy_open
               THEN {[m4 EXCEPT !.ok = m3.ok /\ m4.ok] : m4 \in Submit(m3, bo)}
               ELSE {m3} : m3 \in sold}

\* the loop ran out of time, lines 2027-2038
LimitBothTimeout ==
    /\ pc = "limit_both_loop"
    /\ f.polls >= 1
    /\ \E ns \in Progress(orders) :
          IF f.sell_filled /\ f.buy_filled
          THEN Finish(Machine(ns), "ret", [f EXCEPT !.result = TRUE])
          ELSE \E m \in HandleTimeoutOrders(Machine(ns)) :
                  Finish(m, "ret", [m.f EXCEPT !.result = m.ok])
    /\ UNCHANGED <<Config, Sched, Stats, Market, clock, direction, dir_from, outcome>>

----------------------------------------------------------------------------
(* Sell-only mode: execute_sell_only_strategy *)

\* should_use_limit_strategy: a narrow spread and ample depth on both sides
ShouldUseLimitStrategy(b) ==
    /\ b.bid # 0 /\ b.ask # 0
    /\ (b.ask - b.bid) * 1000 < HighLiquiditySpreadPermille * b.bid
    /\ b.bid_qty > Q * HighLiquidityDepth
    /\ b.ask_qty > Q * HighLiquidityDepth

\* lines 1301-1354 and 1356-1371: the larger holder sells, by limit order or at market
SellOnly ==
    /\ pc = "sell_only"
    /\ LET p == CurrentPair
           b == GetBestBidAsk(p)
           ts == clock + 1
           a1 == BaseBalance(cache, 1, p)
           a2 == BaseBalance(cache, 2, p)
           sc == IF a1 >= a2 THEN 1 ELSE 2
           sq == Min(BaseBalance(cache, sc, p), Q)
           sid == OrderId(p, "so", ts, "")
           limit == ShouldUseLimitStrategy(b) /\ b.bid > 0 /\ b.ask > 0
           so == Order(sid, sc, p, "SELL", IF limit THEN "LIMIT" ELSE "MARKET", sq,
                       "sell", "leg", "sell_only")
           fr == [f EXCEPT !.ts = ts, !.sc = sc, !.sell_id = sid, !.sell_quantity = sq,
                           !.awaiting = <<sid>>, !.completed = <<FALSE>>, !.polls = 0,
                           !.ret = IF limit THEN "sell_only_limit_ret" ELSE "ret"]
       IN  /\ clock' = ts
           /\ \E m \in Submit(Machine(orders), so) :
                IF m.ok THEN Finish(m, "wait", fr)
                ELSE Finish(m, "ret", [fr EXCEPT !.result = FALSE])
    /\ UNCHANGED <<Config, Sched, Stats, Market, direction, dir_from, outcome>>

\* lines 1337-1354: the limit order did not complete, the quantity goes to market
SellOnlyFallback ==
    /\ pc = "sell_only_limit_ret"
    /\ IF f.result
       THEN Finish(Machine(orders), "ret", f)
       ELSE LET mid == WithSuffix(f.sell_id, "_market")
                mo == Order(mid, f.sc, CurrentPair, "SELL", "MARKET", f.sell_quantity,
                            "sell", "remedy", "sell_only")
            IN  \E m \in Submit(Cancel(Machine(orders), f.sell_id), mo) :
                   IF m.ok
                   THEN Finish(m, "wait", [f EXCEPT !.awaiting = <<mid>>,
                                                    !.completed = <<FALSE>>,
                                                    !.polls = 0, !.ret = "ret"])
                   ELSE Finish(m, "ret", [f EXCEPT !.result = FALSE])
    /\ UNCHANGED <<Config, Sched, Stats, Market, clock, direction, dir_from, outcome>>

----------------------------------------------------------------------------
(* Strategy 3: strategy_limit_market *)

\* a trend that counts equal prices as rising or falling
AnalyzePriceTrendWeak(prices) ==
    LET n == Len(prices)
    IN  IF n < 3 THEN "neutral"
        ELSE IF prices[n - 2] <= prices[n - 1] /\ prices[n - 1] <= prices[n] THEN "up"
        ELSE IF prices[n - 2] >= prices[n - 1] /\ prices[n - 1] >= prices[n] THEN "down"
        ELSE "neutral"

\* analyze_price_trend over the last three mid prices
AnalyzePriceTrend(prices) ==
    LET n == Len(prices)
    IN  IF n < 3 THEN "neutral"
        ELSE IF prices[n - 2] < prices[n - 1] /\ prices[n - 1] < prices[n] THEN "up"
        ELSE IF prices[n - 2] > prices[n - 1] /\ prices[n - 1] > prices[n] THEN "down"
        ELSE "neutral"

\* should_use_limit_sell: the depth scores are the sizes over fixed_buy_quantity, the
\* spread score is added to both and cancels in the comparison
ShouldUseLimitSell(b, prices) ==
    IF b.bid = 0 \/ b.ask = 0 THEN TRUE
    ELSE IF b.ask_qty > b.bid_qty + Q THEN TRUE
    ELSE IF b.bid_qty > b.ask_qty + Q THEN FALSE
    ELSE AnalyzePriceTrend(prices) # "up"

\* execute_limit_sell_market_buy / execute_limit_buy_market_sell up to the monitor:
\* the limit leg is submitted first, the market leg second
LimitMarket ==
    /\ pc = "limit_market"
    /\ LET p == CurrentPair
           b == GetBestBidAsk(p)
           ts == clock + 1
           sc == direction[p][1]
           bc == direction[p][2]
           limit_sell == ShouldUseLimitSell(b, last_prices[p])
           sid == OrderId(p, IF limit_sell THEN "ls" ELSE "ms", ts, "")
           bid == OrderId(p, IF limit_sell THEN "mb" ELSE "lb", ts, "")
           sq == Min(GetSellQuantity(cache, sc, p), Ceiling)
           so == Order(sid, sc, p, "SELL", IF limit_sell THEN "LIMIT" ELSE "MARKET", sq,
                       "sell", "leg", "limit_market")
           bo == Order(bid, bc, p, "BUY", IF limit_sell THEN "MARKET" ELSE "LIMIT", Q,
                       "buy", "leg", "limit_market")
           first == IF limit_sell THEN so ELSE bo
           second == IF limit_sell THEN bo ELSE so
           fr == [f EXCEPT !.ts = ts, !.sc = sc, !.bc = bc, !.sell_id = sid, !.buy_id = bid,
                           !.sell_quantity = sq, !.buy_quantity = Q,
                           !.limit_side = IF limit_sell THEN "sell" ELSE "buy"]
       IN  /\ clock' = ts
           /\ \E m1 \in Submit(Machine(orders), first) :
                IF ~m1.ok
                THEN Finish(m1, "ret", [fr EXCEPT !.result = FALSE])
                ELSE \E m1s \in Slept(m1) :
                     \E m2 \in Submit(m1s, second) :
                        IF m2.ok
                        THEN Finish(m2, "limit_market_loop", fr)
                        ELSE Finish(Cancel(m2, first.id), "ret", [fr EXCEPT !.result = FALSE])
    /\ UNCHANGED <<Config, Sched, Stats, Market, direction, dir_from, outcome>>

\* a poll of a market leg: FILLED and PARTIALLY_FILLED both count as filled
Saw(m, id) ==
    IF StatusOf(m.os, id) = "FILLED" THEN [m EXCEPT !.seen = @ \cup {id}] ELSE m

\* handle_partial_limit_sell: cancel, refresh the seller's cache, sell all of it at market
HandlePartialLimitSell(m) ==
    LET p == CurrentPair
        a == m.f.sc
        m1 == [Cancel(m, m.f.sell_id) EXCEPT !.c = Refreshed(m.c, m.r, a)]
        remaining == BaseBalance(m1.c, a, p)
        id == OrderId(p, "es", m.f.ts, "")
        o == [Order(id, a, p, "SELL", "MARKET", remaining, "sell", "remedy",
                    "handle_partial_limit_sell") EXCEPT !.avail = remaining]
    IN  IF remaining > DustLimit
        THEN UNION {IF m2.ok
                    THEN {IF StatusOf(m3.os, id) \in {"FILLED", "PARTIALLY_FILLED"}
                          THEN [Saw(m3, id) EXCEPT !.c = Refreshed(m3.c, m3.r, a), !.ok = TRUE]
                          ELSE [m3 EXCEPT !.ok = FALSE] : m3 \in Slept(m2)}
                    ELSE {m2} : m2 \in Submit(m1, o)}
        ELSE {[m1 EXCEPT !.ok = TRUE]}

\* handle_partial_limit_buy: cancel, refresh the buyer's cache, buy at market what the
\* buyer's balance lacks of fixed_buy_quantity
HandlePartialLimitBuy(m) ==
    LET p == CurrentPair
        a == m.f.bc
        m1 == [Cancel(m, m.f.buy_id) EXCEPT !.c = Refreshed(m.c, m.r, a)]
        remaining == Q - BaseBalance(m1.c, a, p)
        id == OrderId(p, "eb", m.f.ts, "")
        o == [Order(id, a, p, "BUY", "MARKET", remaining, "buy", "remedy",
                    "handle_partial_limit_buy") EXCEPT !.avail = BaseBalance(m1.c, a, p)]
    IN  IF remaining > DustLimit
        THEN UNION {IF m2.ok
                    THEN {IF StatusOf(m3.os, id) \in {"FILLED", "PARTIALLY_FILLED"}
                          THEN [Saw(m3, id) EXCEPT !.c = Refreshed(m3.c, m3.r, a), !.ok = TRUE]
                          ELSE [m3 EXCEPT !.ok = FALSE] : m3 \in Slept(m2)}
                    ELSE {m2} : m2 \in Submit(m1, o)}
        ELSE {[m1 EXCEPT !.ok = TRUE]}

\* lines 2543-2571: the buy is filled and the limit sell untouched: cancel it and sell
\* the cached balance, capped, at market; an accepted order is taken for filled
EmergencySell(m) ==
    LET p == CurrentPair
        m1 == [Cancel(m, m.f.sell_id) EXCEPT !.f.was_limit = FALSE]
        qty == Min(GetSellQuantity(m.c, m.f.sc, p), Ceiling)
        o == Order(OrderId(p, "es", m.f.ts, ""), m.f.sc, p, "SELL", "MARKET", qty,
                   "sell", "remedy", "monitor_limit_sell_market_buy_orders")
    IN  IF qty > 0
        THEN {IF m2.ok THEN [m2 EXCEPT !.f.sell_filled = TRUE]
              ELSE [m2 EXCEPT !.exit = "return"] : m2 \in Submit(m1, o)}
        ELSE {[m1 EXCEPT !.exit = "return"]}

\* lines 2632-2658: the sell is filled and the limit buy untouched: cancel it and buy at
\* market what the cached balance lacks of the buy quantity
EmergencyBuy(m) ==
    LET p == CurrentPair
        m1 == [Cancel(m, m.f.buy_id) EXCEPT !.f.was_limit = FALSE]
        qty == m.f.buy_quantity - BaseBalance(m.c, m.f.bc, p)
        o == Order(OrderId(p, "eb", m.f.ts, ""), m.f.bc, p, "BUY", "MARKET", qty,
                   "buy", "remedy", "monitor_limit_buy_market_sell_orders")
    IN  IF qty > 0
        THEN {IF m2.ok THEN [m2 EXCEPT !.f.buy_filled = TRUE]
              ELSE [m2 EXCEPT !.exit = "return"] : m2 \in Submit(m1, o)}
        ELSE {[m1 EXCEPT !.f.buy_filled = TRUE]}

\* one iteration of the loop of monitor_limit_sell_market_buy_orders, lines 2507-2573;
\* exit: the loop goes on ("loop"), is left by break ("break") or by return False
MonitorLimitSellMarketBuyIter(m) ==
    LET bought == StatusOf(m.os, m.f.buy_id) \in {"FILLED", "PARTIALLY_FILLED"}
        m1 == IF ~m.f.buy_filled /\ bought
              THEN [Saw(m, m.f.buy_id) EXCEPT !.f.buy_filled = TRUE] ELSE m
        st == StatusOf(m.os, m.f.sell_id)
        polled ==
            IF m1.f.sell_filled THEN {m1}
            ELSE IF st = "FILLED" THEN {[Saw(m1, m.f.sell_id) EXCEPT !.f.sell_filled = TRUE]}
            ELSE IF st = "PARTIALLY_FILLED"
            THEN IF m1.f.buy_filled
                 THEN {[h EXCEPT !.exit = "break", !.f.partial = TRUE,
                                 !.f.sell_filled = h.ok,
                                 !.f.was_limit = IF h.ok THEN FALSE ELSE @] :
                          h \in HandlePartialLimitSell(m1)}
                 ELSE {[m1 EXCEPT !.f.partial = TRUE]}
            ELSE {m1}
    IN  UNION {IF m2.exit = "break" THEN {m2}
               ELSE IF m2.f.buy_filled /\ m2.f.sell_filled THEN {[m2 EXCEPT !.exit = "break"]}
               ELSE IF m2.f.buy_filled /\ ~m2.f.partial THEN EmergencySell(m2)
               ELSE {m2} : m2 \in polled}

\* one iteration of the loop of monitor_limit_buy_market_sell_orders, lines 2595-2660
MonitorLimitBuyMarketSellIter(m) ==
    LET sold == StatusOf(m.os, m.f.sell_id) \in {"FILLED", "PARTIALLY_FILLED"}
        m1 == IF ~m.f.sell_filled /\ sold
              THEN [Saw(m, m.f.sell_id) EXCEPT !.f.sell_filled = TRUE] ELSE m
        st == StatusOf(m.os, m.f.buy_id)
        polled ==
            IF m1.f.buy_filled THEN {m1}
            ELSE IF st = "FILLED" THEN {[Saw(m1, m.f.buy_id) EXCEPT !.f.buy_filled = TRUE]}
            ELSE IF st = "PARTIALLY_FILLED"
            THEN IF m1.f.sell_filled
                 THEN {[h EXCEPT !.exit = "break", !.f.partial = TRUE,
                                 !.f.buy_filled = h.ok,
                                 !.f.was_limit = IF h.ok THEN FALSE ELSE @] :
                          h \in HandlePartialLimitBuy(m1)}
                 ELSE {[m1 EXCEPT !.f.partial = TRUE]}
            ELSE {m1}
    IN  UNION {IF m2.exit = "break" THEN {m2}
               ELSE IF m2.f.sell_filled /\ m2.f.buy_filled THEN {[m2 EXCEPT !.exit = "break"]}
               ELSE IF m2.f.sell_filled /\ ~m2.f.partial THEN EmergencyBuy(m2)
               ELSE {m2} : m2 \in polled}

\* after the loop, lines 2575-2582 and 2662-2670: the market leg is cancelled if not
\* filled, the limit leg only if it is untouched; success is both legs filled
MonitorCleanup(m) ==
    LET market_id == IF m.f.limit_side = "sell" THEN m.f.buy_id ELSE m.f.sell_id
        limit_id == IF m.f.limit_side = "sell" THEN m.f.sell_id ELSE m.f.buy_id
        market_filled == IF m.f.limit_side = "sell" THEN m.f.buy_filled ELSE m.f.sell_filled
        limit_filled == IF m.f.limit_side = "sell" THEN m.f.sell_filled ELSE m.f.buy_filled
        m1 == IF ~market_filled THEN Cancel(m, market_id) ELSE m
    IN  IF ~limit_filled /\ m.f.was_limit /\ ~m.f.partial THEN Cancel(m1, limit_id) ELSE m1

MonitorStep(m) ==
    IF m.exit = "return" THEN Finish(m, "ret", [m.f EXCEPT !.result = FALSE])
    ELSE IF m.exit = "break"
    THEN Finish(MonitorCleanup(m), "ret",
                [m.f EXCEPT !.result = m.f.sell_filled /\ m.f.buy_filled])
    ELSE Finish(m, "limit_market_loop", [m.f EXCEPT !.polls = @ + 1])

MonitorLimitSellMarketBuyOrders ==
    /\ pc = "limit_market_loop"
    /\ f.limit_side = "sell"
    /\ f.polls < MaxPolls
    /\ \E ns \in Progress(orders) :
       \E m \in MonitorLimitSellMarketBuyIter(Machine(ns)) : MonitorStep(m)
    /\ UNCHANGED <<Config, Sched, Stats, Market, clock, direction, dir_from, outcome>>

MonitorLimitBuyMarketSellOrders ==
    /\ pc = "limit_market_loop"
    /\ f.limit_side = "buy"
    /\ f.polls < MaxPolls
    /\ \E ns \in Progress(orders) :
       \E m \in MonitorLimitBuyMarketSellIter(Machine(ns)) : MonitorStep(m)
    /\ UNCHANGED <<Config, Sched, Stats, Market, clock, direction, dir_from, outcome>>

\* either monitor ran out of time
MonitorTimeout ==
    /\ pc = "limit_market_loop"
    /\ f.polls >= 1
    /\ \E ns \in Progress(orders) :
          Finish(MonitorCleanup(Machine(ns)), "ret",
                 [f EXCEPT !.result = f.sell_filled /\ f.buy_filled])
    /\ UNCHANGED <<Config, Sched, Stats, Market, clock, direction, dir_from, outcome>>

----------------------------------------------------------------------------
(* execute_trading_cycle, second half: lines 1423-1472 *)

\* record_strategy_performance: strategy_performance[symbol] has no entry for BOTH,
\* so the lookup raises KeyError
Recordable(actual) == actual \in HedgeStrategies

Recorded(perf, p, actual, success) ==
    [perf EXCEPT ![p][actual].total_count = @ + 1,
                 ![p][actual].success_count = IF success THEN @ + 1 ELSE @]

\* every successful cycle counted as a hedge
TradeVolumeHedgeOnly(mode) == FixedBuyQuantity * 2

\* the volume a successful cycle counts: lines 1443-1448
TradeVolume(mode) == IF mode = "sell_only" THEN FixedBuyQuantity ELSE FixedBuyQuantity * 2

\* update_cache_after_trade / update_cache_after_failure
EndCycle ==
    /\ pc = "ret"
    /\ LET p == CurrentPair
           v == TradeVolume(f.mode)
       IN  IF f.actual = "both" /\ ~f.result /\ f.chain < 3
           THEN \* BOTH: the next strategy of the chain, lines 1430-1435
                /\ pc' = IF f.chain = 1 THEN "market_only" ELSE "limit_market"
                /\ f' = [F0 EXCEPT !.mode = f.mode, !.actual = f.actual,
                                   !.chain = f.chain + 1]
                /\ UNCHANGED <<Stats, cache, real, direction, dir_from, orders, outcome,
                               faults, cancels, seen_filled>>
           ELSE /\ pc' = "end"
                \* the strategy has returned: its locals are gone
                /\ f' = F0
                /\ cancels' = {}
                /\ seen_filled' = {}
                /\ pair_states' =
                      IF f.result
                      THEN [pair_states EXCEPT ![p].volume = @ + v,
                                               ![p].successful_trades = @ + 1]
                      ELSE pair_states
                /\ total_volume' = IF f.result THEN total_volume + v ELSE total_volume
                /\ IF Recordable(f.actual)
                   THEN \E ns \in Progress(orders) :
                          LET r2 == Settled(real, orders, ns)
                              c2 == RefreshedBoth(cache, r2)
                          IN  /\ strategy_performance' =
                                    Recorded(strategy_performance, p, f.actual, f.result)
                              /\ orders' = <<>>
                              /\ faults' = faults - Irregular(orders, ns)
                              /\ real' = r2
                              /\ cache' = c2
                              /\ direction' =
                                    [direction EXCEPT ![p] = DetermineTradeDirection(c2, p)]
                              /\ dir_from' = [dir_from EXCEPT ![p] = DirectionInputs(c2, p)]
                              /\ outcome' = IF f.result THEN "success" ELSE "failure"
                   ELSE /\ outcome' = "raised"
                        /\ orders' = <<>>
                        /\ UNCHANGED <<strategy_performance, cache, real, direction,
                                       dir_from, faults>>
    /\ UNCHANGED <<Config, Sched, Market, clock>>

----------------------------------------------------------------------------

Next ==
    \/ IterTop
    \/ CheckAster
    \/ CheckBalances
    \/ InitReturn
    \/ CheckConditions
    \/ LimitBoth
    \/ LimitBothPoll
    \/ LimitBothTimeout
    \/ MarketOnly
    \/ LimitMarket
    \/ MonitorLimitSellMarketBuyOrders
    \/ MonitorLimitBuyMarketSellOrders
    \/ MonitorTimeout
    \/ SellOnly
    \/ SellOnlyFallback
    \/ WaitPoll
    \/ WaitTimeout
    \/ EndCycle
    \/ EndIteration

Spec == Init /\ [][Next]_vars

SchedSpec == SchedInit /\ [][Next]_vars

\* the same start, or strategy LIMIT_MARKET met with a snapshot and a price window
\* that earlier iterations have left: prices rising, falling and flat, a book with
\* more on the ask side
AskHeavyBook == [bid |-> 2000, ask |-> 2001, bid_qty |-> 50 * Milli, ask_qty |-> 90 * Milli]
TrendHistories == {<<3999, 4000>>, <<4010, 4008>>, <<4001, 4001>>, <<3998, 3999, 4000>>}
TrendInit ==
    \/ Init
    \/ StartedWith([iters |-> 1, trades |-> 1], 0, {"limit_market"}, SchedHoldings,
                   {AskHeavyBook}, TrendHistories)

TrendSpec == TrendInit /\ [][Next]_vars

\* update_order_book on its own, called for the active pair again and again: the
\* price window fills and rolls
RefreshOnly ==
    /\ pc = "loop"
    /\ appended[CurrentPair] < MaxRefresh
    /\ \E b \in Books \cup {EmptyBook} : UpdateOrderBook(CurrentPair, b)
    /\ UNCHANGED <<pc, Config, Sched, Stats, clock, faults, cache, real, direction,
                   dir_from, orders, cancels, seen_filled, f, outcome>>

BookInit ==
    Started([iters |-> 0, trades |-> 0], 0, {"market_only"}, SchedHoldings)

BookSpec == BookInit /\ [][RefreshOnly]_vars

----------------------------------------------------------------------------
(* Strategy AUTO: get_best_strategy *)

\* calculate_spread_percentage(bid, ask) < limit, with limit in ten-thousandths;
\* float('inf') when a side is zero
SpreadBelow(b, limit) ==
    /\ b.bid # 0 /\ b.ask # 0
    /\ (b.ask - b.bid) * 10000 < limit * b.bid

\* calculate_price_volatility(pair) < limit, with limit in permille; 0 for a window
\* of fewer than two prices
VolatilityBelow(prices, permille) ==
    \A i \in 2 .. Len(prices) :
        prices[i - 1] # 0 => Abs(prices[i] - prices[i - 1]) * 1000 < permille * prices[i - 1]

\* lines 1150-1157
SpreadScore(b) ==
    IF SpreadBelow(b, MinSpreadThreshold) THEN 3
    ELSE IF SpreadBelow(b, MinSpreadThreshold * 2) THEN 2
    ELSE IF SpreadBelow(b, MinSpreadThreshold * 4) THEN 1 ELSE 0

\* lines 1159-1167: halves are avoided by doubling both sides
DepthScore(b) ==
    LET min_depth == Min(b.bid_qty, b.ask_qty)
        required_depth == Q * MinDepthMultiplier
    IN  IF min_depth > required_depth * 5 THEN 3
        ELSE IF min_depth > required_depth * 3 THEN 2
        ELSE IF 2 * min_depth > required_depth * 3 THEN 1 ELSE 0

\* lines 1169-1175
VolatilityScore(prices) ==
    IF VolatilityBelow(prices, 1) THEN 3
    ELSE IF VolatilityBelow(prices, 3) THEN 2
    ELSE IF VolatilityBelow(prices, 5) THEN 1 ELSE 0

MarketScore(b, prices) == SpreadScore(b) + DepthScore(b) + VolatilityScore(prices)

\* the pick with the thresholds of LIMIT_BOTH and LIMIT_MARKET exchanged
PickByScoreSwapped(score) ==
    IF score >= 7 THEN "limit_market"
    ELSE IF score >= 4 THEN "limit_both" ELSE "market_only"

\* lines 1177-1186
PickByScore(score) ==
    IF score >= 7 THEN "limit_both"
    ELSE IF score >= 4 THEN "limit_market" ELSE "market_only"

\* auto_select_strategy_by_market_condition
AutoSelectStrategyByMarketCondition(b, prices) == PickByScore(MarketScore(b, prices))

\* every strategy that was tried at all
ValidStrategiesAny(perf) == {s \in HedgeStrategies : perf[s].total_count >= 1}

\* valid_strategies: the strategies with enough data
ValidStrategies(perf) == {s \in HedgeStrategies : perf[s].total_count >= MinSamples}

\* the order of the keys of strategy_performance[symbol]: lines 524-528
StrategyOrder == <<"limit_both", "market_only", "limit_market">>

\* perf1.success_rate > perf2.success_rate, for records with total_count > 0
HigherRate(perf1, perf2) ==
    perf1.success_count * perf2.total_count > perf2.success_count * perf1.total_count

\* max(valid_strategies.items(), key=success_rate): the first of the best, in the
\* order of the keys
BestOf(perf, valid) ==
    LET first == CHOOSE i \in 1 .. Len(StrategyOrder) :
                    /\ StrategyOrder[i] \in valid
                    /\ \A j \in 1 .. Len(StrategyOrder) :
                          StrategyOrder[j] \in valid =>
                             /\ ~HigherRate(perf[StrategyOrder[j]], perf[StrategyOrder[i]])
                             /\ j < i => HigherRate(perf[StrategyOrder[i]],
                                                    perf[StrategyOrder[j]])
    IN  StrategyOrder[first]

\* get_best_strategy
GetBestStrategy(perf, b, prices) ==
    IF ValidStrategies(perf) = {}
    THEN AutoSelectStrategyByMarketCondition(b, prices)
    ELSE BestOf(perf, ValidStrategies(perf))

\* books and price windows for every score of the three parts
LooseBook == [bid |-> 2000, ask |-> 2003, bid_qty |-> 80 * Milli, ask_qty |-> 80 * Milli]
AutoBooks == Books \cup {EmptyBook, LooseBook}
AutoHistories == {<<>>, <<4001, 4003>>, <<4001, 4006>>, <<4001, 4017>>, <<4001, 4041>>}

\* execute_trading_cycle under strategy AUTO, lines 1411-1420: the strategy of the
\* cycle; the trade mode and the result of the strategy are inputs
AutoSelect ==
    /\ pc = "loop"
    /\ strategy[CurrentPair] = "auto"
    /\ \E mode \in {"normal", "sell_only"}, result \in BOOLEAN :
          LET p == CurrentPair
              actual == IF mode = "sell_only" THEN "market_only"
                        ELSE GetBestStrategy(strategy_performance[p], GetBestBidAsk(p),
                                             last_prices[p])
          IN  /\ strategy_performance[p][actual].total_count < MaxAttempts
              /\ f' = [F0 EXCEPT !.mode = mode, !.actual = actual, !.result = result]
    /\ pc' = "ret"
    /\ UNCHANGED <<Config, Sched, Stats, Market, clock, faults, cache, real, direction,
                   dir_from, orders, cancels, seen_filled, outcome>>

\* record_strategy_performance at the end of the cycle, lines 1443-1471
AutoRecord ==
    /\ pc = "ret"
    /\ strategy[CurrentPair] = "auto"
    /\ strategy_performance' =
          Recorded(strategy_performance, CurrentPair, f.actual, f.result)
    /\ f' = F0
    /\ pc' = "loop"
    /\ UNCHANGED <<Config, Sched, pair_states, total_volume, Market, clock, faults,
                   cache, real, direction, dir_from, orders, cancels, seen_filled,
                   outcome>>

AutoInit ==
    /\ pc = "loop"
    /\ current_pair_index = 0
    /\ consecutive_failures = 0
    /\ iter = 0
    /\ failure_streak = [p \in Pairs |-> 0]
    /\ horizon = [iters |-> 0, trades |-> 0]
    /\ clock = 0
    /\ faults = 0
    /\ strategy = [p \in Pairs |-> "auto"]
    /\ pair_states = [p \in Pairs |-> [volume |-> 0, trade_count |-> 0, successful_trades |-> 0]]
    /\ \E b \in AutoBooks : order_book = [p \in Pairs |-> b]
    /\ \E h \in AutoHistories :
          /\ last_prices = [p \in Pairs |-> h]
          /\ appended = [p \in Pairs |-> Len(h)]
    /\ real \in SchedHoldings
    /\ cache = real
    /\ direction = [p \in Pairs |-> DetermineTradeDirection(cache, p)]
    /\ dir_from = [p \in Pairs |-> DirectionInputs(cache, p)]
    /\ orders = <<>>
    /\ cancels = {}
    /\ seen_filled = {}
    /\ total_volume = 0
    /\ strategy_performance =
          [p \in Pairs |-> [s \in HedgeStrategies |-> [total_count |-> 0, success_count |-> 0]]]
    /\ f = F0
    /\ outcome = "none"

AutoSpec == AutoInit /\ [][AutoSelect \/ AutoRecord]_vars

----------------------------------------------------------------------------
(* AsterDexClient.refresh_balance_cache against a gateway that may fail *)

\* balances = {} : get_asset_balance reads 0.0 for every asset
NoBalances == [base |-> [p \in Pairs |-> 0], usdt |-> 0, aster |-> 0]

\* refresh_balance_cache of account a: the answer of the gateway when the call went
\* through (ok), and the empty dictionary when _request returned {'error': ...};
\* either is stored in _balance_cache (line 333)
RefreshBalanceCache(c, r, a, ok) ==
    [c EXCEPT ![a] = IF ok THEN r[a] ELSE NoBalances]

\* one forced refresh of one account
ForceRefresh(a, ok) ==
    /\ pc = "loop"
    /\ cache' = RefreshBalanceCache(cache, real, a, ok)
    /\ UNCHANGED <<pc, Config, Sched, Stats, Market, clock, faults, real, direction,
                   dir_from, orders, cancels, seen_filled, f, outcome>>

\* the exchange moves the holdings (fills, transfers), unseen by the cache
HoldingsMove ==
    /\ pc = "loop"
    /\ real' \in InitHoldings
    /\ UNCHANGED <<pc, Config, Sched, Stats, Market, clock, faults, cache, direction,
                   dir_from, orders, cancels, seen_filled, f, outcome>>

CacheNext ==
    \/ \E a \in Accounts, ok \in BOOLEAN : ForceRefresh(a, ok)
    \/ HoldingsMove

CacheInit ==
    Started([iters |-> 0, trades |-> 0], 0, {"market_only"}, InitHoldings)

CacheSpec == CacheInit /\ [][CacheNext]_vars

----------------------------------------------------------------------------
(* wait_for_orders_completion on its own: any two awaited orders *)

\* the orders the exchange holds when the wait starts: a sell of the seller's holding
\* and a buy of the fixed quantity, market or limit; an order that is left out is one
\* whose get_order answers without a status
WaitOrders(c, d, p) ==
    LET so(t) == Order(OrderId(p, "s", 1, ""), d[1], p, "SELL", t,
                       GetSellQuantity(c, d[1], p), "sell", "leg", "market_only")
        bo(t) == Order(OrderId(p, "b", 1, ""), d[2], p, "BUY", t, Q, "buy", "leg",
                       "market_only")
        T == {"MARKET", "LIMIT"}
    IN  {<<so(t), bo(u)>> : t \in T, u \in T}
        \cup {<<so(t)>> : t \in T} \cup {<<bo(t)>> : t \in T}

WaitInit ==
    /\ pc = "wait"
    /\ current_pair_index = 0
    /\ consecutive_failures = 0
    /\ iter = 1
    /\ failure_streak = [p \in Pairs |-> 0]
    /\ horizon = [iters |-> 1, trades |-> 1]
    /\ clock = 1
    /\ faults \in 0 .. MaxFaults
    /\ strategy = [p \in Pairs |-> "market_only"]
    /\ pair_states = [p \in Pairs |-> [volume |-> 0, trade_count |-> 1, successful_trades |-> 0]]
    /\ order_book = [p \in Pairs |-> TightBook]
    /\ last_prices = [p \in Pairs |-> <<TightBook.bid + TightBook.ask>>]
    /\ appended = [p \in Pairs |-> 1]
    /\ real \in SchedHoldings
    /\ cache = real
    /\ direction = [p \in Pairs |-> DetermineTradeDirection(cache, p)]
    /\ dir_from = [p \in Pairs |-> DirectionInputs(cache, p)]
    /\ orders \in WaitOrders(cache, direction[CurrentPair], CurrentPair)
    /\ cancels = {}
    /\ seen_filled = {}
    /\ total_volume = 0
    /\ strategy_performance =
          [p \in Pairs |-> [s \in HedgeStrategies |-> [total_count |-> 0, success_count |-> 0]]]
    /\ f = [F0 EXCEPT !.mode = "normal", !.actual = "market_only", !.ts = 1,
                      !.awaiting = <<OrderId(CurrentPair, "s", 1, ""),
                                     OrderId(CurrentPair, "b", 1, "")>>,
                      !.completed = <<FALSE, FALSE>>, !.ret = "ret"]
    /\ outcome = "none"

WaitSpec == WaitInit /\ [][WaitPoll \/ WaitTimeout]_vars

----------------------------------------------------------------------------
(* strategy_limit_both_improved: handle_one_side_filled *)

\* lines 1564-1581: the two limit orders when one is seen FILLED and the other, leg,
\* is not: still NEW, or PARTIALLY_FILLED with half of it executed
OneSideOrders(c, d, p, leg, partial) ==
    LET so == Order(OrderId(p, "s", 1, ""), d[1], p, "SELL", "LIMIT",
                    GetSellQuantity(c, d[1], p), "sell", "leg", "limit_both_improved")
        bo == Order(OrderId(p, "b", 1, ""), d[2], p, "BUY", "LIMIT", Q, "buy", "leg",
                    "limit_both_improved")
        done(o) == [o EXCEPT !.exec = o.qty, !.status = "FILLED"]
        part(o) == IF partial
                   THEN [o EXCEPT !.exec = FormatQuantity(o.qty \div 2),
                                  !.status = "PARTIALLY_FILLED"]
                   ELSE o
    IN  [before |-> <<so, bo>>,
         now |-> IF leg = "sell" THEN <<part(so), done(bo)>> ELSE <<done(so), part(bo)>>]

\* handle_one_side_filled: cancel the limit order, submit a market order for what is
\* left under f"{order_id}_com", then wait_for_orders_completion on
\* f"{order_id}_completion_{timestamp}"
HandleOneSideFilled ==
    /\ pc = "one_side"
    /\ LET p == CurrentPair
           leg == f.limit_side
           order_id == IF leg = "sell" THEN f.sell_id ELSE f.buy_id
           client == IF leg = "sell" THEN f.sc ELSE f.bc
           remaining_quantity == IF leg = "sell" THEN f.sell_quantity - f.sell_exec
                                 ELSE f.buy_quantity - f.buy_exec
           o == Order(WithSuffix(order_id, "_com"), client, p,
                      IF leg = "sell" THEN "SELL" ELSE "BUY", "MARKET",
                      remaining_quantity, leg, "remedy", "limit_both_improved")
       IN  \E ns \in Progress(orders) :
              LET m1 == Cancel(Machine(ns), order_id)
              IN  IF remaining_quantity <= 0
                  THEN Finish(m1, "ret", [f EXCEPT !.result = TRUE])
                  ELSE \E m2 \in Submit(m1, o) :
                          IF ~m2.ok
                          THEN Finish(m2, "ret", [f EXCEPT !.result = FALSE])
                          ELSE Finish(m2, "wait",
                                      [f EXCEPT !.awaiting =
                                                   <<WithSuffix(order_id, "_completion_ts")>>,
                                                !.completed = <<FALSE>>, !.polls = 0,
                                                !.ret = "ret"])
    /\ UNCHANGED <<Config, Sched, Stats, Market, clock, direction, dir_from, outcome>>

OneSideInit ==
    /\ pc = "one_side"
    /\ current_pair_index = 0
    /\ consecutive_failures = 0
    /\ iter = 1
    /\ failure_streak = [p \in Pairs |-> 0]
    /\ horizon = [iters |-> 1, trades |-> 1]
    /\ clock = 1
    /\ faults \in 0 .. MaxFaults
    /\ strategy = [p \in Pairs |-> "limit_both"]
    /\ pair_states = [p \in Pairs |-> [volume |-> 0, trade_count |-> 1, successful_trades |-> 0]]
    /\ order_book = [p \in Pairs |-> TightBook]
    /\ last_prices = [p \in Pairs |-> <<TightBook.bid + TightBook.ask>>]
    /\ appended = [p \in Pairs |-> 1]
    /\ cache \in SchedHoldings
    /\ direction = [p \in Pairs |-> DetermineTradeDirection(cache, p)]
    /\ dir_from = [p \in Pairs |-> DirectionInputs(cache, p)]
    /\ \E leg \in {"sell", "buy"}, partial \in BOOLEAN :
          LET d == direction[CurrentPair]
              os == OneSideOrders(cache, d, CurrentPair, leg, partial)
          IN  /\ orders = os.now
              /\ real = Settled(cache, os.before, os.now)
              /\ f = [F0 EXCEPT !.mode = "normal", !.actual = "limit_both", !.ts = 1,
                                !.sc = d[1], !.bc = d[2],
                                !.sell_id = os.now[1].id, !.buy_id = os.now[2].id,
                                !.sell_quantity = os.now[1].req, !.buy_quantity = Q,
                                !.sell_exec = os.now[1].exec, !.buy_exec = os.now[2].exec,
                                !.limit_side = leg]
    /\ cancels = {}
    /\ seen_filled = {}
    /\ total_volume = 0
    /\ strategy_performance =
          [p \in Pairs |-> [s \in HedgeStrategies |-> [total_count |-> 0, success_count |-> 0]]]
    /\ outcome = "none"

OneSideSpec == OneSideInit /\ [][HandleOneSideFilled \/ WaitPoll \/ WaitTimeout]_vars

----------------------------------------------------------------------------
(* The claims *)

Legs == {"sell", "buy"}
OtherLeg(leg) == IF leg = "sell" THEN "buy" ELSE "sell"

\* an iteration of the scheduler is under way on CurrentPair
InIteration == pc # "loop"

\* the cached spread of the active instrument exceeds pair.max_spread
SpreadTooWide ==
    /\ GetBestBidAsk(CurrentPair).bid # 0
    /\ GetBestBidAsk(CurrentPair).ask # 0
    /\ SpreadExceeds(GetBestBidAsk(CurrentPair).bid, GetBestBidAsk(CurrentPair).ask,
                     MaxSpreadPermille)

\* a strategy has just returned to execute_trading_cycle
Returned == pc = "ret"

\* a status poll has shown an order of this leg FILLED in this cycle
LegSeenFilled(leg) ==
    \E i \in 1 .. Len(orders) : orders[i].leg = leg /\ orders[i].id \in seen_filled

\* C1: a hedge cycle reports success only if a status poll has shown the sell leg and
\* the buy leg FILLED, each by its original order or by a remediating market order
C1_SuccessOnlyIfBothLegsFilled ==
    (Returned /\ f.mode = "normal" /\ f.result)
        => (LegSeenFilled("sell") /\ LegSeenFilled("buy"))

\* C2: the cumulative volume of an instrument never decreases, and it increases only
\* in a cycle that execute_trading_cycle reports to the scheduler as successful
C2_VolumeOnlyOnReportedSuccess ==
    [][\A p \in Pairs :
          /\ pair_states'[p].volume >= pair_states[p].volume
          /\ pair_states'[p].volume > pair_states[p].volume => outcome' = "success"]_vars

\* C3: every SELL order passed to order submission asks for no more than the smaller
\* of the selling account's available base balance and the ceiling of 5000
C3_SellWithinBalanceAndCeiling ==
    \A i \in 1 .. Len(orders) :
        (orders[i].side = "SELL" /\ orders[i].asset = "base")
            => orders[i].req <= Min(orders[i].avail, Ceiling)

\* what the accepted orders of a leg of strategy_limit_both executed / asked for
RECURSIVE ExecTotal(_, _, _)
ExecTotal(os, leg, roles) ==
    IF os = <<>> THEN 0
    ELSE (IF Head(os).by = "limit_both" /\ Head(os).leg = leg /\ Head(os).role \in roles
             /\ Head(os).status # "REJECTED"
          THEN Head(os).exec ELSE 0)
         + ExecTotal(Tail(os), leg, roles)

RECURSIVE QtyTotal(_, _, _)
QtyTotal(os, leg, roles) ==
    IF os = <<>> THEN 0
    ELSE (IF Head(os).by = "limit_both" /\ Head(os).leg = leg /\ Head(os).role \in roles
             /\ Head(os).status # "REJECTED"
          THEN Head(os).qty ELSE 0)
         + QtyTotal(Tail(os), leg, roles)

LegExec(leg) == IF leg = "sell" THEN f.sell_exec ELSE f.buy_exec
LegQuantity(leg) == IF leg = "sell" THEN f.sell_quantity ELSE f.buy_quantity
LegId(leg) == IF leg = "sell" THEN f.sell_id ELSE f.buy_id

\* strategy_limit_both has returned with one leg polled FILLED and the other leg
\* polled partially filled and sent to market
TimedOutPartial(leg) ==
    /\ Returned
    /\ f.sell_id[2] = "ls" /\ f.sell_id[1] = -1
    /\ StatusOf(orders, LegId(OtherLeg(leg))) = "FILLED"
    /\ LegId(OtherLeg(leg)) \in seen_filled
    /\ LegExec(leg) > 0 /\ LegExec(leg) < LegQuantity(leg)
    /\ QtyTotal(orders, leg, {"remedy"}) > 0

\* C4: when one leg filled and the other was partially filled and timed out, what the
\* limit orders of that leg (re-posted ones included) executed plus what its market
\* remediation asks for is the quantity originally requested, within one increment
C4_TimeoutRemediationCompletesQuantity ==
    \A leg \in Legs :
        TimedOutPartial(leg)
            => Abs(ExecTotal(orders, leg, {"leg", "repost"})
                   + QtyTotal(orders, leg, {"remedy"}) - LegQuantity(leg)) <= LotStep

\* the market order handle_partial_limit_sell / handle_partial_limit_buy submitted
PartialRemedy(leg) ==
    {i \in 1 .. Len(orders) :
        orders[i].by = (IF leg = "sell" THEN "handle_partial_limit_sell"
                        ELSE "handle_partial_limit_buy")}

\* C5: the remediation of a limit leg seen PARTIALLY_FILLED with e of q, the other leg
\* filled, is a market order for q - e, and a cycle that then reports success has
\* executed q on that leg
C5_RemediationIsRemainder ==
    \A leg \in Legs : \A i \in PartialRemedy(leg) :
        Returned =>
            /\ Abs(orders[i].req - (LegQuantity(leg) - ExecutedOf(orders, LegId(leg))))
                  <= LotStep
            /\ f.result =>
                  Abs(ExecutedOf(orders, LegId(leg)) + orders[i].exec - LegQuantity(leg))
                      <= LotStep

\* C6: no two orders passed to order submission carry the same clientOrderId
C6_ClientOrderIdsUnique ==
    \A i, j \in 1 .. Len(orders) : i # j => orders[i].id # orders[j].id

\* C7: when a cycle that ran a strategy is over, both balance caches have been
\* refreshed from the exchange and the direction recomputed from them, before the
\* scheduler goes on to the next cycle
C7_RefreshedAfterEveryCycle ==
    (pc = "end" /\ outcome # "rejected")
        => /\ cache = real
           /\ direction[CurrentPair] = DetermineTradeDirection(cache, CurrentPair)

\* C8, as stated: in an iteration whose cached spread exceeds the maximum spread no
\* step runs a strategy, submits an order or changes the cached direction
C8_NothingOnWideSpread ==
    [][(pc' # "loop" /\ SpreadTooWide')
          => (f'.mode = "none" /\ orders' = <<>> /\ direction' = direction)]_vars

\* C8, amended: while the cached spread exceeds the maximum spread no hedge strategy
\* is run and no hedge order is submitted; what runs before the spread check may have
\* acted: the ASTER top-up, the initial buy, and the sell-only mode
C8_NoHedgeOnWideSpread ==
    (InIteration /\ SpreadTooWide)
        => /\ f.mode # "normal"
           /\ \A i \in 1 .. Len(orders) : orders[i].by \in {"aster", "init", "sell_only"}

\* the spread check is what turned the cycle down: every other check passes
C8_Witness ==
    /\ pc = "end" /\ outcome = "rejected"
    /\ SpreadTooWide
    /\ MarketOkNoSpread(GetBestBidAsk(CurrentPair), last_prices[CurrentPair])
    /\ Cond("sell", cache, direction[CurrentPair], CurrentPair)
    /\ Cond("buy", cache, direction[CurrentPair], CurrentPair)
    /\ \A a \in Accounts : cache[a].aster >= MinAsterBalance

\* C9: the cached direction names as seller the account that held the larger base
\* balance when the direction was last recomputed, account 1 on a tie
C9_DirectionIsLargerHolder ==
    \A p \in Pairs :
        LET seller == direction[p][1]
            buyer == direction[p][2]
        IN  /\ {seller, buyer} = Accounts
            /\ dir_from[p][seller] >= dir_from[p][buyer]
            /\ dir_from[p][1] = dir_from[p][2] => seller = 1

\* a cycle has ended and its recomputation turned the direction round
C9_Witness ==
    /\ pc = "end" /\ outcome = "success"
    /\ direction[CurrentPair] = <<2, 1>>
    /\ dir_from[CurrentPair][2] > dir_from[CurrentPair][1]
    /\ dir_from[CurrentPair] = DirectionInputs(cache, CurrentPair)

\* the strategy that is running or has just returned
RunningStrategy ==
    IF f.actual # "both" THEN f.actual
    ELSE IF f.chain = 1 THEN "limit_both"
    ELSE IF f.chain = 2 THEN "market_only" ELSE "limit_market"

\* the legs of the strategy run that has just returned, in order of submission
RunLegs ==
    {i \in 1 .. Len(orders) :
        /\ orders[i].role = "leg"
        /\ f.mode = "normal" /\ orders[i].by = RunningStrategy
        /\ orders[i].id[3] = f.ts}

\* C10, as stated: a rejected leg is the last order of its cycle
C10_RejectedLegEndsCycle ==
    \A i \in 1 .. Len(orders) :
        (orders[i].role = "leg" /\ orders[i].by \in HedgeStrategies
         /\ orders[i].status = "REJECTED") => i = Len(orders)

\* C10, amended: a strategy whose first leg is rejected returns failure without a
\* second leg; one whose second leg is rejected issues a cancel for the first and
\* returns failure without a further order; the cycle fails with it unless the
\* configured strategy is BOTH, whose chain goes on to the next strategy
C10_RejectedLegEndsStrategy ==
    Returned =>
        \A i \in RunLegs :
            orders[i].status = "REJECTED"
                => /\ ~f.result
                   /\ i = Len(orders)
                   /\ \A j \in RunLegs : j < i => orders[j].id \in cancels

\* a second leg was rejected after the first was accepted
C10_Witness ==
    /\ Returned
    /\ \E i \in RunLegs, j \in RunLegs :
          j < i /\ orders[i].status = "REJECTED" /\ orders[j].id \in cancels

----------------------------------------------------------------------------
(* The pair scheduler *)

\* the instruments whose accumulated volume is below, or has reached, their target
BelowTarget == {p \in Pairs : pair_states[p].volume < TargetVolume}
AllReached == BelowTarget = {}

\* C11: every iteration of the scheduler moves the active instrument from position
\* i to position (i + 1) mod n of the configured list, so that none is skipped
C11_RoundRobin ==
    [][pc = "end" => current_pair_index' = (current_pair_index + 1) % NPairs]_vars

\* a failed cycle has brought the failure counter back to zero: the early rotation
EarlyRotation == pc = "end" /\ outcome # "success" /\ consecutive_failures' < consecutive_failures

\* C12: the early rotation happens exactly when the active instrument's own third
\* consecutive failed cycle ends; failures of other instruments do not count
C12_RotationOnOwnThirdFailure ==
    [][pc = "end" =>
         (EarlyRotation <=>
            (outcome # "success"
             /\ failure_streak[current_pair_index] + 1 >= FailuresBeforeRotation))]_vars

\* C13: when a cycle leaves the active instrument at or above its target while
\* another instrument is still below its own, the scheduler turns to another
\* instrument next
C13_ReachedInstrumentYields ==
    [][(pc = "end" /\ outcome = "success"
        /\ current_pair_index \notin BelowTarget /\ BelowTarget # {})
          => current_pair_index' # current_pair_index]_vars

\* C14: once every instrument has reached its target no further cycle starts a
\* strategy
C14_NoCycleAfterAllReached ==
    [][AllReached =>
         \A p \in Pairs : pair_states'[p].trade_count = pair_states[p].trade_count]_vars

----------------------------------------------------------------------------
(* Volume accounting *)

\* C15: the step that ends a cycle adds to the active instrument's volume exactly
\* twice the configured quantity when a hedge strategy returned success, exactly
\* once the configured quantity when sell-only returned success, and nothing when
\* the strategy returned failure; no other step changes any instrument's volume
C15_VolumeAccounting ==
    [][\A p \in Pairs :
          pair_states'[p].volume - pair_states[p].volume =
             IF pc = "ret" /\ pc' = "end" /\ p = current_pair_index /\ f.result
             THEN IF f.mode = "sell_only" THEN FixedBuyQuantity ELSE 2 * FixedBuyQuantity
             ELSE 0]_vars

\* a successful sell-only cycle has been counted
C15_Witness ==
    /\ pc = "end" /\ outcome = "success"
    /\ pair_states[current_pair_index].volume = FixedBuyQuantity
    /\ pair_states[current_pair_index].successful_trades = 1

----------------------------------------------------------------------------
(* Initialisation of the base balance *)

\* the orders of this iteration that are legs of a hedge strategy, and its
\* initialisation buys, by position
HedgeOrders ==
    {i \in 1 .. Len(orders) : orders[i].leg \in Legs /\ orders[i].by \in HedgeStrategies}
InitBuys == {i \in 1 .. Len(orders) : orders[i].leg = "init"}

\* both accounts' cached base balance of the active instrument is below half the
\* configured quantity; holding none is the extreme case
BothShort == \A a \in Accounts : 2 * BaseBalance(cache, a, current_pair_index) < Q

NoQuote == \A a \in Accounts : cache[a].usdt = 0

\* the initialisation buy is being awaited
AwaitingInit == (pc = "wait" /\ f.ret = "init_ret") \/ pc = "init_ret"

\* C16: when the balance check finds both accounts short of the base asset, the
\* cycle either submits a market BUY from an account whose USDT balance is positive
\* and not below the other's and waits for it, or it is refused; it is refused
\* without any order when neither account has USDT; no hedge leg exists while the
\* buy is awaited, and every hedge leg of the iteration comes after a buy that has
\* executed
C16_InitBuyBeforeHedge ==
    [][/\ (pc = "check_bal" /\ BothShort) =>
             \/ /\ AwaitingInit'
                /\ Len(orders') = Len(orders) + 1
                /\ LET o == orders'[Len(orders')]
                   IN  /\ o.leg = "init" /\ o.side = "BUY" /\ o.type = "MARKET"
                       /\ o.pair = current_pair_index
                       /\ cache[o.acct].usdt > 0
                       /\ \A a \in Accounts : cache[o.acct].usdt >= cache[a].usdt
             \/ /\ pc' = "end" /\ outcome' = "rejected"
                /\ HedgeOrders' = {}
       /\ (pc = "check_bal" /\ BothShort /\ NoQuote) => (pc' = "end" /\ orders' = orders)
       /\ AwaitingInit' => HedgeOrders' = {}
       /\ \A i \in HedgeOrders', j \in InitBuys' : j < i /\ orders'[j].exec > 0]_vars

\* account 2, holding more USDT, bought first and a hedge strategy has run after
C16_Witness ==
    /\ pc = "ret"
    /\ \E j \in InitBuys, i \in HedgeOrders : j < i /\ orders[j].acct = 2

\* a cycle was refused because neither account has USDT
C16_NoQuoteRefused ==
    pc = "end" /\ outcome = "rejected" /\ BothShort /\ NoQuote /\ orders = <<>>

----------------------------------------------------------------------------
(* Failures and the scheduler loop *)

\* C17: however a cycle has ended (success, failure of its strategy, refusal by the
\* market check, an exception raised), the rest of the loop body can run, and it
\* leads back to the top of the loop
C17_SchedulerNeverHalts ==
    pc = "end" =>
        /\ outcome \in {"success", "failure", "rejected", "raised"}
        /\ ENABLED (EndIteration /\ pc' = "loop")

\* a cycle has raised and the scheduler is at the top of its loop again, on the same
\* instrument and with its failure counter untouched
C17_Witness ==
    /\ pc = "loop" /\ iter = 1
    /\ consecutive_failures = 0
    /\ failure_streak[current_pair_index] = 1

----------------------------------------------------------------------------
(* One cycle at a time *)

\* the orders of this iteration for the base asset of a pair
BaseOrders == {i \in 1 .. Len(orders) : orders[i].asset = "base"}

\* C18: the active instrument changes only in the step that follows the end of a
\* cycle; an iteration starts only when nothing of the previous cycle is left (its
\* locals, its orders, its outcome); and every order a cycle places is for the
\* instrument that is active
C18_OneCycleAtATime ==
    [][/\ current_pair_index' # current_pair_index => (pc = "end" /\ pc' = "loop")
       /\ iter' # iter =>
             (pc = "loop" /\ f = F0 /\ orders = <<>> /\ outcome = "none")
       /\ \A i \in BaseOrders' : orders'[i].pair = current_pair_index']_vars

\* the second cycle of a run is under way on the second instrument, with an order
\* of its own placed
C18_Witness ==
    /\ iter = 2 /\ current_pair_index = 1
    /\ pc \notin {"loop", "end"}
    /\ BaseOrders # {}

----------------------------------------------------------------------------
(* One leg filled, the other still open *)

\* the market orders the running strategy submitted for a leg it found unfilled
\* while the other leg was filled: the emergency orders of the two Limit-Market
\* monitors and the late orders of strategy_limit_both
LegFixes ==
    {i \in 1 .. Len(orders) :
        /\ f.mode = "normal" /\ orders[i].id[3] = f.ts
        /\ orders[i].role = "remedy"
        /\ \/ orders[i].by \in {"monitor_limit_sell_market_buy_orders",
                               "monitor_limit_buy_market_sell_orders"}
           \/ /\ orders[i].by = "limit_both"
              /\ orders[i].id[4] \in {"_timeout_market", "_r_timeout_market"}}

\* what the limit orders of the leg of order i have executed
LegExecuted(i) ==
    IF orders[i].by = "limit_both"
    THEN ExecTotal(orders, orders[i].leg, {"leg", "repost"})
    ELSE ExecutedOf(orders, LegId(orders[i].leg))

\* C19: when the other leg has reached FILLED, such a market order comes after a
\* cancel of the open leg and asks for that leg's requested quantity minus its
\* executed quantity
C19_FixIsCancelThenRemainder ==
    \A i \in LegFixes :
        StatusOf(orders, LegId(OtherLeg(orders[i].leg))) = "FILLED"
            => /\ LegId(orders[i].leg) \in cancels
               /\ Abs(orders[i].req - (LegQuantity(orders[i].leg) - LegExecuted(i)))
                     <= LotStep

----------------------------------------------------------------------------
(* Timeout with both legs incomplete *)

\* the monitoring loop of a limit-using strategy ran out of time with neither leg
\* seen complete
TimedOutBothOpen ==
    /\ MonitorTimeout \/ LimitBothTimeout
    /\ ~f.sell_filled /\ ~f.buy_filled

\* C20: when that happens the strategy issues a cancel for each leg and submits a
\* market order for each leg
C20_TimeoutCancelsAndGoesToMarket ==
    [][TimedOutBothOpen =>
         \A leg \in Legs :
            /\ LegId(leg) \in cancels'
            /\ \E i \in Len(orders) + 1 .. Len(orders') :
                  /\ orders'[i].leg = leg /\ orders'[i].role = "remedy"
                  /\ orders'[i].type = "MARKET"]_vars

----------------------------------------------------------------------------
(* Re-posting in strategy_limit_both *)

\* the accepted re-posted limit orders of a leg of the running strategy_limit_both
Reposts(leg) ==
    {i \in 1 .. Len(orders) :
        /\ orders[i].by = "limit_both" /\ orders[i].role = "repost"
        /\ orders[i].leg = leg /\ orders[i].status # "REJECTED"
        /\ f.mode = "normal" /\ orders[i].id[3] = f.ts}

\* C21: once a leg of strategy_limit_both has been re-posted, the order the
\* monitoring loop polls for that leg is the re-posted one
C21_RepostIsTracked ==
    \A leg \in Legs : \A i \in Reposts(leg) :
        pc = "limit_both_loop" => LegId(leg) = orders[i].id

----------------------------------------------------------------------------
(* Cancels that fail *)

\* this step of a monitoring loop issued a cancel for the leg's order that did not
\* take effect (the order had ended by then), and did not post the leg again
FailedCancel(leg) ==
    /\ pc \in {"limit_both_loop", "limit_market_loop"}
    /\ LegId(leg) \in cancels' \ cancels
    /\ StatusOf(orders', LegId(leg)) # "CANCELED"
    /\ ~\E i \in Len(orders) + 1 .. Len(orders') :
           orders'[i].leg = leg /\ orders'[i].role = "repost"

\* C22: a step of remediation or timeout handling whose cancel fails still submits
\* the market order for that leg
C22_FallbackDespiteFailedCancel ==
    [][\A leg \in Legs :
          FailedCancel(leg) =>
             \E i \in Len(orders) + 1 .. Len(orders') :
                /\ orders'[i].leg = leg /\ orders'[i].role = "remedy"
                /\ orders'[i].type = "MARKET"]_vars

----------------------------------------------------------------------------
(* The balance retry loops *)

\* the cycle was refused by check_sell_conditions_with_retry or
\* check_buy_conditions_with_retry: the stages before them passed, a price is
\* cached, and the balance the last check read is short
RetryExhausted ==
    /\ pc = "end" /\ outcome = "rejected"
    /\ \A a \in Accounts : cache[a].aster >= MinAsterBalance
    /\ ~BothShort
    /\ GetBestBidAsk(current_pair_index).bid # 0
    /\ GetBestBidAsk(current_pair_index).ask # 0
    /\ \/ ~Cond("sell", cache, direction[current_pair_index], current_pair_index)
       \/ ~Cond("buy", cache, direction[current_pair_index], current_pair_index)

\* C23: when the retry loop has given up, the cycle has submitted no hedge order
\* and the scheduler moves to the next instrument
C23_RetryExhaustedMovesOn ==
    [][RetryExhausted =>
         /\ HedgeOrders = {}
         /\ current_pair_index' = SwitchToNextPair(current_pair_index)]_vars

----------------------------------------------------------------------------
(* Errors of the gateway *)

\* _request answered create_order with {'error': ...} although the exchange had no
\* ground to refuse the order: a BUY of a positive quantity under a clientOrderId
\* no earlier order carries
GatewayError(i) ==
    /\ orders[i].status = "REJECTED"
    /\ orders[i].side = "BUY" /\ orders[i].asset = "base" /\ orders[i].qty > 0
    /\ ~\E j \in 1 .. i - 1 : orders[j].id = orders[i].id

\* the call was issued again: a later create_order with the same parameters
Retried(i) ==
    \E j \in i + 1 .. Len(orders) :
        /\ orders[j].acct = orders[i].acct /\ orders[j].pair = orders[i].pair
        /\ orders[j].side = orders[i].side /\ orders[j].type = orders[i].type
        /\ orders[j].req = orders[i].req

\* execute_trading_cycle is about to return False: the balance initialisation
\* failed, or the strategy (the last of the chain under BOTH) returned False
CycleFailed ==
    \/ pc = "end" /\ outcome = "rejected"
    \/ pc = "ret" /\ ~f.result /\ (f.actual # "both" \/ f.chain >= 3)

\* C24: a cycle that fails after a gateway error on create_order has retried that
\* call
C24_GatewayErrorIsRetried ==
    \A i \in 1 .. Len(orders) : (CycleFailed /\ GatewayError(i)) => Retried(i)

\* the gateway answered the initialisation BUY with an error and the cycle has
\* returned False. _request does not look at the status code, so a 401 for a bad
\* key or signature is one of the errors this covers
ErrorSurfaced ==
    /\ pc = "end" /\ outcome = "rejected"
    /\ \E i \in 1 .. Len(orders) : GatewayError(i)

\* C25: after a cycle in which the gateway refused a call with an authentication
\* error the scheduler does not go round its loop again
C25_AuthErrorStopsScheduler ==
    [][ErrorSurfaced => pc' # "loop"]_vars

----------------------------------------------------------------------------
(* Refreshing the order book *)

\* twice the mid price of a book
Mid2(b) == b.bid + b.ask

\* the step ran update_order_book and did not store a fetched book with its mid price
RefreshFailed ==
    /\ pc = "loop"
    /\ appended'[CurrentPair] = appended[CurrentPair]

\* C26: a refresh that fails leaves the snapshot and the price history of the pair
\* as they were and raises nothing, and no refresh touches another pair
C26_FailedRefreshKeepsSnapshot ==
    [][/\ RefreshFailed =>
            /\ order_book'[CurrentPair] = order_book[CurrentPair]
            /\ last_prices'[CurrentPair] = last_prices[CurrentPair]
            /\ pc' = "check" /\ outcome' = outcome
       /\ pc = "loop" =>
            \A q \in Pairs \ {CurrentPair} :
                /\ order_book'[q] = order_book[q]
                /\ last_prices'[q] = last_prices[q]
                /\ pair_states'[q] = pair_states[q]]_vars

\* the active pair had a snapshot and a price, and the refresh of a later iteration
\* has failed
C26_Witness ==
    /\ pc = "check" /\ iter >= 2
    /\ appended[CurrentPair] = 1
    /\ pair_states[CurrentPair].successful_trades = 1
    /\ order_book[CurrentPair] \in Books
    /\ Len(last_prices[CurrentPair]) = 1

\* C27: a refresh that succeeds stores the fetched book and appends its mid price,
\* once; the window holds at most 10 prices, and the oldest goes when it would
\* hold more
C27_RollingWindow ==
    [][(pc = "loop" /\ appended'[CurrentPair] # appended[CurrentPair]) =>
          LET old == last_prices[CurrentPair]
              new == last_prices'[CurrentPair]
              b == order_book'[CurrentPair]
          IN  /\ b \in Books
              /\ appended'[CurrentPair] = appended[CurrentPair] + 1
              /\ Len(new) <= PriceHistorySize
              /\ new = IF Len(old) < PriceHistorySize
                       THEN old \o <<Mid2(b)>>
                       ELSE SubSeq(old, 2, Len(old)) \o <<Mid2(b)>>]_vars

\* the window was full and a further price has come in
C27_Witness ==
    /\ appended[CurrentPair] = PriceHistorySize + 1
    /\ Len(last_prices[CurrentPair]) = PriceHistorySize
    /\ last_prices[CurrentPair][1] # last_prices[CurrentPair][PriceHistorySize]

----------------------------------------------------------------------------
(* The balance cache *)

\* the code of the step calls refresh_balance_cache: check_and_buy_aster_if_needed,
\* initialize_at_balance, the retry loops, the handle_partial_* remedies and
\* update_cache_after_trade / update_cache_after_failure
ForcedRefresh ==
    pc \in {"check", "init_ret", "check_cond", "limit_market_loop", "ret"}

\* C28: the balances the engine reads are the cached ones: they change only in a
\* step that forces a refresh, whatever happens to the balances at the exchange
C28_CacheOnlyByForcedRefresh ==
    [][\A a \in Accounts :
          /\ cache'[a] # cache[a] => ForcedRefresh
          /\ (cache'[a] # cache[a] /\ pc \in {"init_ret", "check_cond", "ret"})
                => cache'[a] = real'[a]]_vars

\* a strategy is polling its orders, fills have moved the balances at the exchange
\* and the engine still reads the balances of the last refresh
C28_Witness ==
    /\ pc \in {"limit_both_loop", "limit_market_loop", "wait"}
    /\ \E a \in Accounts : \E p \in Pairs : cache[a].base[p] # real[a].base[p]

----------------------------------------------------------------------------
(* Strategy AUTO *)

\* a cycle under AUTO has chosen its strategy by get_best_strategy
AutoChosen == pc = "ret" /\ strategy[CurrentPair] = "auto" /\ f.mode = "normal"

\* the strategies with 5 or more recorded attempts on the active pair
Tried5 == {s \in HedgeStrategies : strategy_performance[CurrentPair][s].total_count >= 5}

\* C29: the market score is between 0 and 9, made of 0 to 3 points each for spread,
\* depth and volatility, and the pick by score is LIMIT_BOTH from 7 up, LIMIT_MARKET
\* from 4 to 6, MARKET_ONLY below
C29_ScoreAndPick ==
    LET b == GetBestBidAsk(CurrentPair)
        prices == last_prices[CurrentPair]
        score == MarketScore(b, prices)
    IN  /\ SpreadScore(b) \in 0 .. 3
        /\ DepthScore(b) \in 0 .. 3
        /\ VolatilityScore(prices) \in 0 .. 3
        /\ score \in 0 .. 9
        /\ (AutoChosen /\ Tried5 = {}) =>
              /\ score >= 7 => f.actual = "limit_both"
              /\ score \in 4 .. 6 => f.actual = "limit_market"
              /\ score <= 3 => f.actual = "market_only"

\* the pick by score was used and gave LIMIT_MARKET on the highest score for it
C29_Witness ==
    /\ AutoChosen /\ Tried5 = {}
    /\ MarketScore(GetBestBidAsk(CurrentPair), last_prices[CurrentPair]) = 6
    /\ f.actual = "limit_market"

\* C30: under AUTO, when some strategy has 5 or more recorded attempts the strategy
\* chosen is one of those, with the highest success rate among them, whatever the
\* score says; when none has, the pick by score is chosen
C30_BestByHistory ==
    AutoChosen =>
       LET perf == strategy_performance[CurrentPair]
       IN  IF Tried5 # {}
           THEN /\ f.actual \in Tried5
                /\ \A s \in Tried5 :
                      perf[f.actual].success_count * perf[s].total_count
                         >= perf[s].success_count * perf[f.actual].total_count
           ELSE f.actual = AutoSelectStrategyByMarketCondition(
                              GetBestBidAsk(CurrentPair), last_prices[CurrentPair])

\* two strategies have 5 attempts, the one chosen has the strictly higher rate and is
\* not the pick by score
C30_Witness ==
    /\ AutoChosen
    /\ \E s \in Tried5 \ {f.actual} :
          HigherRate(strategy_performance[CurrentPair][f.actual],
                     strategy_performance[CurrentPair][s])
    /\ f.actual # AutoSelectStrategyByMarketCondition(
                      GetBestBidAsk(CurrentPair), last_prices[CurrentPair])

----------------------------------------------------------------------------
(* Sell-only mode *)

\* both accounts hold at least half of fixed_buy_quantity of the base asset, by the cache
BothSufficient ==
    /\ 2 * BaseBalance(cache, 1, CurrentPair) >= Q
    /\ 2 * BaseBalance(cache, 2, CurrentPair) >= Q

\* the orders execute_sell_only_strategy has submitted in the running cycle
SellOnlyOrders ==
    {i \in 1 .. Len(orders) : orders[i].by = "sell_only" /\ orders[i].status # "REJECTED"}

\* the account with the larger cached holding, account 1 on a tie
LargerHolder ==
    IF BaseBalance(cache, 1, CurrentPair) >= BaseBalance(cache, 2, CurrentPair) THEN 1 ELSE 2

\* the base asset sold by the sell-only orders of the cycle
RECURSIVE SoldBy(_)
SoldBy(is) ==
    IF is = {} THEN 0
    ELSE LET i == CHOOSE j \in is : TRUE IN orders[i].exec + SoldBy(is \ {i})

\* C31: sell-only is entered exactly when both accounts hold half the quantity; its
\* orders are sells of the larger holder, they sell at most min(balance, quantity),
\* and a market order is there only after a limit order that was not filled
C31_SellOnly ==
    [][/\ pc = "check_bal" => ((pc' = "sell_only") <=> BothSufficient)
       /\ (f.mode = "sell_only" /\ f'.mode = "sell_only") =>
             /\ \A i \in 1 .. Len(orders') :
                   orders'[i].by # "aster" =>
                      /\ orders'[i].by = "sell_only" /\ orders'[i].side = "SELL"
                      /\ orders'[i].acct = LargerHolder
             /\ SoldBy(SellOnlyOrders)' <= Min(BaseBalance(cache, LargerHolder, CurrentPair), Q)
             /\ \A i \in SellOnlyOrders' :
                   orders'[i].type = "MARKET" =>
                      \E j \in 1 .. i - 1 :
                         /\ orders'[j].by = "sell_only" /\ orders'[j].type = "LIMIT"
                         /\ orders'[j].status # "FILLED"]_vars

----------------------------------------------------------------------------
(* The limit side of strategy_limit_market *)

\* spread_score of should_use_limit_sell, lines 2286-2291
SpreadPoints(b) ==
    IF SpreadBelow(b, 10) THEN 2 ELSE IF SpreadBelow(b, 5) THEN 1 ELSE 0

\* the last three mid prices of the active pair are strictly rising
Rising ==
    LET prices == last_prices[CurrentPair]
        n == Len(prices)
    IN  n >= 3 /\ prices[n - 2] < prices[n - 1] /\ prices[n - 1] < prices[n]

\* the side-scores of the cached book differ by no more than 1
ScoresClose ==
    LET b == GetBestBidAsk(CurrentPair)
    IN  /\ b.ask_qty <= b.bid_qty + Q
        /\ b.bid_qty <= b.ask_qty + Q

\* C32: strategy_limit_market posts its limit order on the sell side when the sell
\* score (ask size over quantity plus spread points) exceeds the buy score by more
\* than 1, on the buy side when the buy score exceeds the sell score by more than 1,
\* and otherwise on the buy side only when the last three mid prices strictly rise
C32_LimitSide ==
    [][pc = "limit_market" =>
          LET b == GetBestBidAsk(CurrentPair)
              sell_score == b.ask_qty + SpreadPoints(b) * Q
              buy_score == b.bid_qty + SpreadPoints(b) * Q
              o == orders'[Len(orders) + 1]
              side == IF sell_score > buy_score + Q THEN "SELL"
                      ELSE IF buy_score > sell_score + Q THEN "BUY"
                      ELSE IF Rising THEN "BUY" ELSE "SELL"
          IN  /\ Len(orders') > Len(orders)
              /\ o.by = "limit_market" /\ o.type = "LIMIT" /\ o.side = side]_vars

\* the scores were close, the prices rising, and the limit order is the buy
C32_Witness ==
    /\ pc = "limit_market_loop" /\ f.limit_side = "buy"
    /\ ScoresClose /\ Rising
    /\ \E i \in 1 .. Len(orders) : orders[i].type = "LIMIT" /\ orders[i].side = "BUY"

----------------------------------------------------------------------------
(* The end of a cycle under every strategy value *)

\* C33: a cycle whose strategy has returned goes back to the scheduler by a return,
\* with its outcome counted in the statistics of one mode
C33_CycleReturnsRecorded ==
    [][(pc = "ret" /\ pc' = "end") =>
          /\ outcome' \in {"success", "failure"}
          /\ \E s \in HedgeStrategies :
                strategy_performance'[CurrentPair][s].total_count
                   = strategy_performance[CurrentPair][s].total_count + 1]_vars

\* the orders of the hedge strategies of the running cycle
ChainOrders ==
    {i \in 1 .. Len(orders) : orders[i].by \notin {"aster", "init"}}

\* C34: under BOTH the next strategy of the chain starts only when the orders of the
\* failed one have executed nothing and none of them is open
C34_ChainStartsClean ==
    [][(pc = "ret" /\ pc' \in {"market_only", "limit_market"}) =>
          \A i \in ChainOrders :
              orders[i].exec = 0 /\ orders[i].status \notin OpenStatus]_vars

\* C35: a forced balance refresh whose gateway call fails leaves the cached balances
\* of the account as they were
C35_FailedRefreshKeepsCache ==
    [][\A a \in Accounts : ForceRefresh(a, FALSE) => cache'[a] = cache[a]]_vars

FailStatus == {"CANCELED", "REJECTED", "EXPIRED"}

\* the awaited orders not observed complete, before and after the step
NotComplete == {f.awaiting[i] : i \in {i \in 1 .. Len(f.awaiting) : ~f.completed[i]}}
NotCompleteAfter == {f.awaiting[i] : i \in {i \in 1 .. Len(f.awaiting) : ~f'.completed[i]}}

\* C36: wait_for_orders_completion goes on for a bounded number of passes. It goes
\* on only while no awaited order has been seen CANCELED, REJECTED or EXPIRED. When
\* it returns False, it has issued cancels for awaited orders not observed complete
\* only, and for all of them but the one it saw failed; on timeout for all of them.
\* When it returns True every awaited order was observed complete and no cancel was
\* issued. An order whose query gives no status is never marked complete and never
\* ends the wait.
C36_WaitForOrdersCompletion ==
    [][pc = "wait" =>
          /\ f.polls <= MaxPolls
          /\ pc' = "wait" =>
                /\ f'.polls = f.polls + 1
                /\ cancels' = cancels
                /\ \A id \in NotCompleteAfter : StatusOf(orders', id) \notin FailStatus
          /\ (pc' # "wait" /\ f'.result) => NotCompleteAfter = {} /\ cancels' = cancels
          /\ (pc' # "wait" /\ ~f'.result) =>
                /\ cancels' \ cancels \subseteq NotCompleteAfter
                /\ \A id \in NotCompleteAfter :
                      id \in cancels' \/ StatusOf(orders', id) \in FailStatus
                /\ Cardinality(NotCompleteAfter \ cancels') <= 1
                /\ \A id \in NotCompleteAfter : StatusOf(orders', id) \notin OpenStatus
          /\ WaitTimeout => ~f'.result /\ cancels' = cancels \cup NotComplete
          /\ \A id \in NotCompleteAfter \cap NotComplete :
                StatusOf(orders', id) = "NONE" =>
                   (pc' # "wait" => ~f'.result /\ id \in cancels')
          /\ \A i \in 1 .. Len(f.awaiting) :
                f'.completed[i] /\ ~f.completed[i] =>
                   StatusOf(orders', f.awaiting[i]) \in {"FILLED", "PARTIALLY_FILLED"}]_vars

\* the wait has returned False on an order seen failed, with the other one cancelled
C36_Witness ==
    /\ pc = "ret" /\ ~f.result
    /\ \E i, j \in 1 .. Len(f.awaiting) :
          /\ i # j /\ ~f.completed[i] /\ ~f.completed[j]
          /\ StatusOf(orders, f.awaiting[i]) = "EXPIRED" /\ f.awaiting[i] \notin cancels
          /\ f.awaiting[j] \in cancels

\* execute_trading_cycle is inside check_market_conditions
InCheck ==
    \/ pc \in {"check", "check_bal", "init_ret", "check_cond"}
    \/ pc = "wait" /\ f.ret = "init_ret"

\* C37: while check_market_conditions runs, and when it rejects the cycle, the
\* attempt counter, the success counter, the volume of the pair, the total volume and
\* the records of the strategies stay as they are
C37_RejectionLeavesStatistics ==
    [][(InCheck /\ (InCheck' \/ pc' = "end")) =>
          /\ outcome' = "rejected" \/ InCheck'
          /\ pair_states' = pair_states
          /\ total_volume' = total_volume
          /\ strategy_performance' = strategy_performance]_vars

\* a cycle was rejected after an earlier cycle had been counted
C37_Witness ==
    /\ pc = "end" /\ outcome = "rejected"
    /\ \E p \in Pairs : pair_states[p].trade_count > 0

\* the ASTER purchases of account a in this iteration
AsterBuys(a) ==
    {i \in 1 .. Len(orders) : orders[i].by = "aster" /\ orders[i].acct = a}

\* C38: an order of a strategy, of sell-only or of the initialisation is on record
\* only in an iteration whose ASTER check found both accounts at the minimum, after
\* at most AsterMaxAttempts purchases per account; before the check has passed there
\* is none
C38_NoOrderWithoutAster ==
    /\ pc \in {"loop", "check"} => \A i \in 1 .. Len(orders) : orders[i].by = "aster"
    /\ (\E i \in 1 .. Len(orders) : orders[i].by # "aster") =>
          /\ \A a \in Accounts : cache[a].aster >= MinAsterBalance
          /\ \A a \in Accounts : real[a].aster >= MinAsterBalance
    /\ \A a \in Accounts : Cardinality(AsterBuys(a)) <= AsterMaxAttempts

\* a strategy has submitted an order after an ASTER purchase brought an account to
\* the minimum
C38_Witness ==
    /\ ChainOrders # {}
    /\ \E a \in Accounts : AsterBuys(a) # {}

\* C39: a cycle run in sell-only mode leaves the record of Market-Only as it is
C39_SellOnlyLeavesMarketOnlyRecord ==
    [][(pc = "ret" /\ f.mode = "sell_only") =>
          strategy_performance'[CurrentPair]["market_only"]
             = strategy_performance[CurrentPair]["market_only"]]_vars

\* the market order handle_one_side_filled has submitted
RemedyOfOneSide ==
    {i \in 1 .. Len(orders) :
        orders[i].role = "remedy" /\ orders[i].by = "limit_both_improved"
        /\ orders[i].status # "REJECTED"}

\* C40: the wait that follows the emergency market order of handle_one_side_filled
\* awaits the clientOrderId that order was submitted under, and when the wait has
\* returned with the order FILLED and not cancelled, it has returned True
C40_RemedyAwaitedUnderItsId ==
    \A i \in RemedyOfOneSide :
        /\ pc \in {"wait", "ret"} => f.awaiting = <<orders[i].id>>
        /\ (pc = "ret" /\ orders[i].status = "FILLED" /\ orders[i].id \notin cancels)
              => f.result

====
